---- MODULE Spec2Model ----
(***************************************************************************)
(* Model of the Arc Grafana datasource backend (package plugin).           *)
(*                                                                         *)
(* The specifications of this module:                                      *)
(*   Spec       QueryData: the queries of one request executed in turn,    *)
(*              each single-shot or split into concurrent chunk tasks      *)
(*   LiveSpec   Spec with the fairness of the goroutine scheduler          *)
(*   SplitSpec  splitTimeRange applied to bounded (from, to, chunkSize)    *)
(*   PlanSpec   the eligibility analysis and chunk planning of query()     *)
(*   MacroSpec  ApplyMacros and ApplyMacrosWithSplit on SQL templates      *)
(*   MergeSpec  mergeFrames on lists of chunk frames                       *)
(*   PrepareSpec  prepareFrames and ensureAscendingTimes on frames         *)
(*   SizeSpec   parseSplitDuration and the chunks it leads to              *)
(*   JsonSpec   JSONToDataFrame on small JSON documents                    *)
(*   ArrowSpec  the two Arrow decoders on small record streams             *)
(*   ExpandSpec expandTimeFilter, expandTimeGroup and ApplyMacros alone    *)
(*   OptimizeSpec  OptimizeTimeSeriesQuery on statements with whitespace   *)
(*   ReturnSpec Spec with fairness for each chunk task and for query()     *)
(* Each specification keeps the variables of the others at an idle value.  *)
(*                                                                         *)
(* Instants and durations are integers counted in ticks; TicksPerSec ticks *)
(* make one second, so sub-second instants and durations exist.            *)
(***************************************************************************)
EXTENDS Integers, Sequences, FiniteSets, TLC

VARIABLES
    \* SplitSpec: the arguments and the result of one splitTimeRange call
    sFrom, sTo, sChunkSize, sChunks, sDone,
    \* PlanSpec: the inputs and the result of the planning part of query()
    pSql, pSplitDuration, pRange, pPlan, pDone,
    \* MacroSpec: one SQL template, its expansion and the expansion of that
    mSegs, mSplitDuration, mOriginal, mChunk, mMode, mOut, mAgain,
    \* MergeSpec: the argument and the result of one mergeFrames call
    gFrames, gOut, gDone,
    \* PrepareSpec: the arguments and the results of one prepareFrames call
    fFrame, fFormat, fSorted, fOut, fDone,
    \* SizeSpec: the chunk size and the chunk plan query() derives from a setting
    dSetting, dRange, dParsed, dChunks, dDone,
    \* JsonSpec: the document and the result of one JSONToDataFrame call
    jDoc, jOut, jDone,
    \* ArrowSpec: an Arrow stream, the decoder applied to it and its result
    aSchema, aRecords, aDecoder, aOut, aDone,
    \* ExpandSpec: expandTimeFilter, expandTimeGroup and ApplyMacros on one template
    eSegs, eFn, eOut,
    \* OptimizeSpec: the argument and the result of one OptimizeTimeSeriesQuery call
    oSql, oOut, oDone,
    \* Spec: one QueryData request
    ctxDone,        \* the caller's context is cancelled
    settings,       \* the settings value shared by the queries of the request
    answered,       \* number of queries of the request already answered
    responses,      \* response.Responses: RefID -> what it holds
    prevDatabase,   \* the database override of the query answered last
    phase,          \* where QueryData is: "idle", "single", "split", "returned",
                    \* or "panicked" when a panic left it
    qm,             \* query(): the parsed query model
    timeRange,      \* query(): query.TimeRange
    qsettings,      \* query(): its local settings pointer (after the override)
    chunks,         \* query(): the chunk plan
    pc,             \* per chunk task: where its goroutine is
    results,        \* query(): results[idx]
    semaphore,      \* number of tokens in the semaphore channel
    sendq,          \* chunk tasks parked on the semaphore, in arrival order
    sentDb,         \* per chunk task: the database of its backend request
    singleDb,       \* querySingle(): the database of its backend request
    overtaken,      \* history: a chunk task ended before one of lower index
    calls,          \* history: per chunk task, the backend requests it issued
    singleCalls,    \* history: the backend requests querySingle() issued
    response        \* query(): the DataResponse it returns

splitVars == <<sFrom, sTo, sChunkSize, sChunks, sDone>>

planVars == <<pSql, pSplitDuration, pRange, pPlan, pDone>>

\* the variables of the specifications of single functions
macroVars == <<mSegs, mSplitDuration, mOriginal, mChunk, mMode, mOut, mAgain>>

mergeVars == <<gFrames, gOut, gDone>>

prepareVars == <<fFrame, fFormat, fSorted, fOut, fDone>>

sizeVars == <<dSetting, dRange, dParsed, dChunks, dDone>>

jsonVars == <<jDoc, jOut, jDone>>

arrowVars == <<aSchema, aRecords, aDecoder, aOut, aDone>>

expandVars == <<eSegs, eFn, eOut>>

optVars == <<oSql, oOut, oDone>>

pureVars == <<splitVars, planVars, macroVars, mergeVars, prepareVars, sizeVars, jsonVars, arrowVars, expandVars, optVars>>

reqVars == <<ctxDone, settings, answered, responses, prevDatabase, phase>>

queryVars == <<qm, timeRange, qsettings, chunks, pc, results, semaphore, sendq,
               sentDb, singleDb, overtaken, calls, singleCalls, response>>

vars == <<pureVars, reqVars, queryVars>>

----------------------------------------------------------------------------
(* Time *)

\* resolution of the model's clock (time.Duration counts nanoseconds)
TicksPerSec == 2

Second == TicksPerSec
Minute == 60 * Second
Hour == 60 * Minute

\* Go integer division truncates toward zero (b > 0)
TruncDiv(a, b) == IF a >= 0 THEN a \div b ELSE -((-a) \div b)

\* int64(d.Seconds()): whole seconds of a duration, truncated toward zero
DurationSeconds(d) == TruncDiv(d, TicksPerSec)

\* t.Unix(): seconds since the epoch, rounded down
Unix(t) == t \div TicksPerSec

\* time.Unix(sec, 0)
TimeUnix(sec) == sec * TicksPerSec

\* the bounds in the wrong order
TimeRangeSwapped(from, to) == [From |-> to, To |-> from]

TimeRange(from, to) == [From |-> from, To |-> to]

----------------------------------------------------------------------------
(* splitTimeRange *)

\* a boundary computed from the range start instead of the epoch
NextBoundaryUnaligned(fromEpoch, chunkSecs) == fromEpoch + chunkSecs

\* the boundary without the step to the next multiple
NextBoundaryFloor(fromEpoch, chunkSecs) ==
    TruncDiv(fromEpoch, chunkSecs) * chunkSecs

\* the next epoch-aligned boundary after 'from'
NextBoundary(fromEpoch, chunkSecs) ==
    (TruncDiv(fromEpoch, chunkSecs) + 1) * chunkSecs

\* the same loop without the trailing chunk
RECURSIVE RestChunksNoLast(_, _, _)
RestChunksNoLast(current, to, chunkSize) ==
    LET end == current + chunkSize IN
    IF ~(end < to)
    THEN <<>>
    ELSE <<TimeRange(current, end)>> \o RestChunksNoLast(end, to, chunkSize)

\* the loop of the middle chunks: all of them, then the last chunk
RECURSIVE RestChunks(_, _, _)
RestChunks(current, to, chunkSize) ==
    LET end == current + chunkSize IN
    IF ~(end < to)
    THEN IF current < to THEN <<TimeRange(current, to)>> ELSE <<>>
    ELSE <<TimeRange(current, end)>> \o RestChunks(end, to, chunkSize)

splitTimeRange(from, to, chunkSize) ==
    LET chunkSecs == DurationSeconds(chunkSize) IN
    IF chunkSecs <= 0
    THEN <<TimeRange(from, to)>>
    ELSE LET firstEnd == TimeUnix(NextBoundary(Unix(from), chunkSecs)) IN
         IF ~(firstEnd < to)
         THEN <<TimeRange(from, to)>>
         ELSE <<TimeRange(from, firstEnd)>> \o RestChunks(firstEnd, to, chunkSize)

----------------------------------------------------------------------------
(* Strings: SQL text is a sequence of one-character strings *)

LowerLetters ==
    <<"a", "b", "c", "d", "e", "f", "g", "h", "i", "j", "k", "l", "m", "n",
      "o", "p", "q", "r", "s", "t", "u", "v", "w", "x", "y", "z">>

UpperLetters ==
    <<"A", "B", "C", "D", "E", "F", "G", "H", "I", "J", "K", "L", "M", "N",
      "O", "P", "Q", "R", "S", "T", "U", "V", "W", "X", "Y", "Z">>

ToUpperChar(c) ==
    IF \E i \in 1 .. 26 : LowerLetters[i] = c
    THEN UpperLetters[CHOOSE i \in 1 .. 26 : LowerLetters[i] = c]
    ELSE c

\* strings.ToUpper
ToUpper(s) == [i \in 1 .. Len(s) |-> ToUpperChar(s[i])]

\* strings.Contains
Contains(s, sub) ==
    \E i \in 0 .. (Len(s) - Len(sub)) : SubSeq(s, i + 1, i + Len(sub)) = sub

\* strings.HasSuffix
HasSuffix(s, suffix) ==
    /\ Len(s) >= Len(suffix)
    /\ SubSeq(s, Len(s) - Len(suffix) + 1, Len(s)) = suffix

\* strings.Index, counted from 1; 0 when sub does not occur in s
Index(s, sub) ==
    LET hits == {i \in 1 .. (Len(s) - Len(sub) + 1) :
                    SubSeq(s, i, i + Len(sub) - 1) = sub}
    IN  IF hits = {} THEN 0
        ELSE CHOOSE i \in hits : \A j \in hits : i <= j

\* s[from:] in the model's counting: the characters from position from on
From(s, from) == SubSeq(s, from, Len(s))

\* strings.ReplaceAll for a non-empty old: the occurrences from left to right,
\* none overlapping another
RECURSIVE ReplaceAll(_, _, _)
ReplaceAll(s, old, new) ==
    LET idx == Index(s, old) IN
    IF idx = 0 THEN s
    ELSE SubSeq(s, 1, idx - 1) \o new
            \o ReplaceAll(From(s, idx + Len(old)), old, new)

\* the white space strings.TrimSpace removes (the ASCII part of it)
SpaceChars == {" ", "\t", "\n", "\r"}

\* strings.Trim, one side at a time, with cutset the characters to cut
TrimLeft(s, cutset) ==
    LET keep == {i \in 1 .. Len(s) : s[i] \notin cutset} IN
    IF keep = {} THEN <<>>
    ELSE From(s, CHOOSE i \in keep : \A j \in keep : i <= j)

TrimRight(s, cutset) ==
    LET keep == {i \in 1 .. Len(s) : s[i] \notin cutset} IN
    IF keep = {} THEN <<>>
    ELSE SubSeq(s, 1, CHOOSE i \in keep : \A j \in keep : i >= j)

\* strings.TrimSpace
TrimSpace(s) == TrimRight(TrimLeft(s, SpaceChars), SpaceChars)

\* the cutset of strings.Trim(s, "'\"")
QuoteChars == {"'", "\""}

\* strings.Trim(s, "'\"")
TrimQuotes(s) == TrimRight(TrimLeft(s, QuoteChars), QuoteChars)

\* strings.SplitN(s, ",", 2)
SplitComma2(s) ==
    LET idx == Index(s, <<",">>) IN
    IF idx = 0 THEN <<s>>
    ELSE <<SubSeq(s, 1, idx - 1), From(s, idx + 1)>>

Digits ==
    <<"0", "1", "2", "3", "4", "5", "6", "7", "8", "9">>

\* the %d of fmt.Sprintf for n >= 0
RECURSIVE Itoa(_)
Itoa(n) ==
    IF n < 10 THEN <<Digits[n + 1]>>
    ELSE Itoa(n \div 10) \o <<Digits[(n % 10) + 1]>>

\* a number in two digits, as the 01, 02, 15, 04, 05 of a time layout
TwoDigits(n) == <<Digits[(n \div 10) + 1], Digits[(n % 10) + 1]>>

----------------------------------------------------------------------------
(* Split duration: autoSplitDuration, parseSplitDuration *)

NoSplit == [dur |-> 0, ok |-> FALSE]

SplitBy(d) == [dur |-> d, ok |-> TRUE]

\* autoSplitDuration with the thresholds on the other side
autoSplitDurationExclusive(tr) ==
    LET span == tr.To - tr.From IN
    IF span <= 3 * Hour THEN NoSplit
    ELSE IF span <= 24 * Hour THEN SplitBy(Hour)
    ELSE IF span <= 7 * 24 * Hour THEN SplitBy(6 * Hour)
    ELSE IF span <= 30 * 24 * Hour THEN SplitBy(24 * Hour)
    ELSE SplitBy(7 * 24 * Hour)

autoSplitDuration(tr) ==
    LET span == tr.To - tr.From IN
    IF span < 3 * Hour THEN NoSplit
    ELSE IF span < 24 * Hour THEN SplitBy(Hour)
    ELSE IF span < 7 * 24 * Hour THEN SplitBy(6 * Hour)
    ELSE IF span < 30 * 24 * Hour THEN SplitBy(24 * Hour)
    ELSE SplitBy(7 * 24 * Hour)

parseSplitDuration(s, tr) ==
    IF s = "off" THEN NoSplit
    ELSE IF s = "" \/ s = "auto" THEN autoSplitDuration(tr)
    ELSE IF s = "1h" THEN SplitBy(Hour)
    ELSE IF s = "6h" THEN SplitBy(6 * Hour)
    ELSE IF s = "12h" THEN SplitBy(12 * Hour)
    ELSE IF s = "1d" THEN SplitBy(24 * Hour)
    ELSE IF s = "3d" THEN SplitBy(3 * 24 * Hour)
    ELSE IF s = "7d" THEN SplitBy(7 * 24 * Hour)
    ELSE NoSplit

----------------------------------------------------------------------------
(* Eligibility: containsLIMIT, containsAggregationWithoutTimeGroup *)

KwLimit ==
    <<" ", "L", "I", "M", "I", "T", " ">>

containsLIMIT(sql) == Contains(ToUpper(sql), KwLimit)

MacroTimeGroup ==
    <<"$", "_", "_", "t", "i", "m", "e", "G", "r", "o", "u", "p">>

MacroTimeFilter ==
    <<"$", "_", "_", "t", "i", "m", "e", "F", "i", "l", "t", "e", "r">>

MacroTimeFrom ==
    <<"$", "_", "_", "t", "i", "m", "e", "F", "r", "o", "m">>

MacroTimeTo ==
    <<"$", "_", "_", "t", "i", "m", "e", "T", "o">>

KwGroupBy ==
    <<"G", "R", "O", "U", "P", " ", "B", "Y">>

KwDistinctSpace ==
    <<"D", "I", "S", "T", "I", "N", "C", "T", " ">>

KwDistinctParen ==
    <<"D", "I", "S", "T", "I", "N", "C", "T", "(">>

KwDistinct ==
    <<"D", "I", "S", "T", "I", "N", "C", "T">>

KwOverParen ==
    <<" ", "O", "V", "E", "R", "(">>

KwOverSpaceParen ==
    <<" ", "O", "V", "E", "R", " ", "(">>

KwUnion ==
    <<" ", "U", "N", "I", "O", "N", " ">>

\* the catalogue of aggregate function names, each with its opening parenthesis
AggregateFunctions ==
    {<<"S", "U", "M", "(">>,
     <<"F", "S", "U", "M", "(">>,
     <<"C", "O", "U", "N", "T", "(">>,
     <<"C", "O", "U", "N", "T", "I", "F", "(">>,
     <<"A", "V", "G", "(">>,
     <<"F", "A", "V", "G", "(">>,
     <<"M", "I", "N", "(">>,
     <<"M", "A", "X", "(">>,
     <<"A", "N", "Y", "_", "V", "A", "L", "U", "E", "(">>,
     <<"A", "R", "G", "_", "M", "I", "N", "(">>,
     <<"A", "R", "G", "_", "M", "I", "N", "_", "N", "U", "L", "L", "(">>,
     <<"A", "R", "G", "_", "M", "A", "X", "(">>,
     <<"A", "R", "G", "_", "M", "A", "X", "_", "N", "U", "L", "L", "(">>,
     <<"F", "I", "R", "S", "T", "(">>,
     <<"L", "A", "S", "T", "(">>,
     <<"P", "R", "O", "D", "U", "C", "T", "(">>,
     <<"S", "T", "R", "I", "N", "G", "_", "A", "G", "G", "(">>,
     <<"L", "I", "S", "T", "(">>,
     <<"A", "R", "R", "A", "Y", "_", "A", "G", "G", "(">>,
     <<"B", "O", "O", "L", "_", "A", "N", "D", "(">>,
     <<"B", "O", "O", "L", "_", "O", "R", "(">>,
     <<"B", "I", "T", "_", "A", "N", "D", "(">>,
     <<"B", "I", "T", "_", "O", "R", "(">>,
     <<"B", "I", "T", "_", "X", "O", "R", "(">>,
     <<"B", "I", "T", "S", "T", "R", "I", "N", "G", "_", "A", "G", "G", "(">>,
     <<"G", "E", "O", "M", "E", "T", "R", "I", "C", "_", "M", "E", "A", "N", "(">>,
     <<"W", "E", "I", "G", "H", "T", "E", "D", "_", "A", "V", "G", "(">>,
     <<"M", "E", "D", "I", "A", "N", "(">>,
     <<"M", "O", "D", "E", "(">>,
     <<"M", "A", "D", "(">>,
     <<"S", "T", "D", "D", "E", "V", "(">>,
     <<"S", "T", "D", "D", "E", "V", "_", "P", "O", "P", "(">>,
     <<"S", "T", "D", "D", "E", "V", "_", "S", "A", "M", "P", "(">>,
     <<"V", "A", "R", "I", "A", "N", "C", "E", "(">>,
     <<"V", "A", "R", "_", "P", "O", "P", "(">>,
     <<"V", "A", "R", "_", "S", "A", "M", "P", "(">>,
     <<"S", "K", "E", "W", "N", "E", "S", "S", "(">>,
     <<"S", "K", "E", "W", "N", "E", "S", "S", "_", "P", "O", "P", "(">>,
     <<"K", "U", "R", "T", "O", "S", "I", "S", "(">>,
     <<"K", "U", "R", "T", "O", "S", "I", "S", "_", "P", "O", "P", "(">>,
     <<"E", "N", "T", "R", "O", "P", "Y", "(">>,
     <<"C", "O", "R", "R", "(">>,
     <<"C", "O", "V", "A", "R", "_", "P", "O", "P", "(">>,
     <<"C", "O", "V", "A", "R", "_", "S", "A", "M", "P", "(">>,
     <<"Q", "U", "A", "N", "T", "I", "L", "E", "(">>,
     <<"Q", "U", "A", "N", "T", "I", "L", "E", "_", "C", "O", "N", "T", "(">>,
     <<"Q", "U", "A", "N", "T", "I", "L", "E", "_", "D", "I", "S", "C", "(">>,
     <<"H", "I", "S", "T", "O", "G", "R", "A", "M", "(">>,
     <<"H", "I", "S", "T", "O", "G", "R", "A", "M", "_", "E", "X", "A", "C", "T", "(">>,
     <<"H", "I", "S", "T", "O", "G", "R", "A", "M", "_", "V", "A", "L", "U", "E", "S", "(">>,
     <<"A", "P", "P", "R", "O", "X", "_", "C", "O", "U", "N", "T", "_", "D", "I", "S", "T", "I", "N", "C", "T", "(">>,
     <<"A", "P", "P", "R", "O", "X", "_", "Q", "U", "A", "N", "T", "I", "L", "E", "(">>,
     <<"A", "P", "P", "R", "O", "X", "_", "T", "O", "P", "_", "K", "(">>,
     <<"R", "E", "S", "E", "R", "V", "O", "I", "R", "_", "Q", "U", "A", "N", "T", "I", "L", "E", "(">>,
     <<"R", "E", "G", "R", "_", "A", "V", "G", "X", "(">>,
     <<"R", "E", "G", "R", "_", "A", "V", "G", "Y", "(">>,
     <<"R", "E", "G", "R", "_", "C", "O", "U", "N", "T", "(">>,
     <<"R", "E", "G", "R", "_", "I", "N", "T", "E", "R", "C", "E", "P", "T", "(">>,
     <<"R", "E", "G", "R", "_", "R", "2", "(">>,
     <<"R", "E", "G", "R", "_", "S", "L", "O", "P", "E", "(">>,
     <<"R", "E", "G", "R", "_", "S", "X", "X", "(">>,
     <<"R", "E", "G", "R", "_", "S", "X", "Y", "(">>,
     <<"R", "E", "G", "R", "_", "S", "Y", "Y", "(">>}

containsAggregationWithoutTimeGroup(sql) ==
    LET upper == ToUpper(sql) IN
    IF Contains(sql, MacroTimeGroup) THEN FALSE
    ELSE IF Contains(upper, KwGroupBy) THEN TRUE
    ELSE IF \/ Contains(upper, KwDistinctSpace)
            \/ Contains(upper, KwDistinctParen)
            \/ HasSuffix(upper, KwDistinct) THEN TRUE
    ELSE IF \E fn \in AggregateFunctions : Contains(upper, fn) THEN TRUE
    ELSE IF Contains(upper, KwOverParen) \/ Contains(upper, KwOverSpaceParen) THEN TRUE
    ELSE FALSE

\* the split decision without the check for the time filter macros
querySplittingAnySql(sql, splitDuration, tr) ==
    LET parsed == parseSplitDuration(splitDuration, tr)
        afterLimit == parsed.ok /\ ~containsLIMIT(sql)
        afterAggregation ==
            afterLimit /\ ~containsAggregationWithoutTimeGroup(sql)
        afterUnion == afterAggregation /\ ~Contains(ToUpper(sql), KwUnion)
    IN  [chunkSize |-> parsed.dur, splitting |-> afterUnion]

\* query(): the split decision, from parseSplitDuration through the four checks
\* that switch splitting off
querySplitting(sql, splitDuration, tr) ==
    LET parsed == parseSplitDuration(splitDuration, tr)
        afterLimit == parsed.ok /\ ~containsLIMIT(sql)
        afterAggregation ==
            afterLimit /\ ~containsAggregationWithoutTimeGroup(sql)
        afterTimeFilter ==
            /\ afterAggregation
            /\ (Contains(sql, MacroTimeFilter) \/ Contains(sql, MacroTimeFrom))
        afterUnion == afterTimeFilter /\ ~Contains(ToUpper(sql), KwUnion)
    IN  [chunkSize |-> parsed.dur, splitting |-> afterUnion]

\* query(): the split decision and, when splitting, the chunk plan
PlanQuery(sql, splitDuration, tr) ==
    LET d == querySplitting(sql, splitDuration, tr) IN
    [splitting |-> d.splitting,
     chunks |-> IF d.splitting
                THEN splitTimeRange(tr.From, tr.To, d.chunkSize)
                ELSE <<>>]

----------------------------------------------------------------------------
(* Macros: ApplyMacros, ApplyMacrosWithSplit and the functions they call *)

\* t.Format(time.RFC3339) of an instant of January 1970 in UTC: the instant cut
\* to whole seconds, as 1970-01-02T15:04:05Z
FormatRFC3339(t) ==
    LET sec == Unix(t)
        day == sec \div 86400
        rem == sec % 86400
    IN  <<"1", "9", "7", "0", "-", "0", "1", "-">> \o TwoDigits(day + 1) \o <<"T">>
            \o TwoDigits(rem \div 3600) \o <<":">>
            \o TwoDigits((rem % 3600) \div 60) \o <<":">>
            \o TwoDigits(rem % 60) \o <<"Z">>

\* fmt.Sprintf("'%s'", t.Format(time.RFC3339))
QuotedTime(t) == <<"'">> \o FormatRFC3339(t) \o <<"'">>

Interval1Hour ==
    <<"1", " ", "h", "o", "u", "r">>

Interval10Minutes ==
    <<"1", "0", " ", "m", "i", "n", "u", "t", "e", "s">>

Interval1Minute ==
    <<"1", " ", "m", "i", "n", "u", "t", "e">>

Interval10Seconds ==
    <<"1", "0", " ", "s", "e", "c", "o", "n", "d", "s">>

calculateInterval(duration) ==
    IF duration > 7 * 24 * Hour THEN Interval1Hour
    ELSE IF duration > 24 * Hour THEN Interval10Minutes
    ELSE IF duration > 6 * Hour THEN Interval1Minute
    ELSE Interval10Seconds

TokenTimeFilterOpen ==
    <<"$", "_", "_", "t", "i", "m", "e", "F", "i", "l", "t", "e", "r", "(">>

TokenTimeFromCall ==
    <<"$", "_", "_", "t", "i", "m", "e", "F", "r", "o", "m", "(", ")">>

TokenTimeToCall ==
    <<"$", "_", "_", "t", "i", "m", "e", "T", "o", "(", ")">>

TokenInterval ==
    <<"$", "_", "_", "i", "n", "t", "e", "r", "v", "a", "l">>

TokenTimeGroupOpen ==
    <<"$", "_", "_", "t", "i", "m", "e", "G", "r", "o", "u", "p", "(">>

\* another conventional name
DefaultTimeColumnTimestamp ==
    <<"t", "i", "m", "e", "s", "t", "a", "m", "p">>

DefaultTimeColumn ==
    <<"t", "i", "m", "e">>

RECURSIVE expandTimeFilter(_, _, _)
expandTimeFilter(sql, from, to) ==
    LET idx == Index(sql, TokenTimeFilterOpen)
        close == Index(From(sql, idx), <<")">>)
        end == close + idx - 1
        argument == TrimSpace(SubSeq(sql, idx + Len(TokenTimeFilterOpen), end - 1))
        column == IF argument = <<>> THEN DefaultTimeColumn ELSE argument
        replacement ==
            column \o <<" ", ">", "=", " ">> \o QuotedTime(from) \o <<" ", "A", "N", "D", " ">>
                \o column \o <<" ", "<", " ">> \o QuotedTime(to)
    IN  IF idx = 0 THEN sql
        ELSE IF close = 0 THEN sql
        ELSE expandTimeFilter(
                SubSeq(sql, 1, idx - 1) \o replacement \o From(sql, end + 1),
                from, to)

\* the interval texts intervalToSeconds knows, each with its seconds
IntervalTable ==
    {<<<<"1", "s">>, 1>>, <<<<"1", " ", "s", "e", "c", "o", "n", "d">>, 1>>,
     <<<<"5", "s">>, 5>>, <<<<"5", " ", "s", "e", "c", "o", "n", "d", "s">>, 5>>,
     <<<<"1", "0", "s">>, 10>>, <<<<"1", "0", " ", "s", "e", "c", "o", "n", "d", "s">>, 10>>,
     <<<<"3", "0", "s">>, 30>>, <<<<"3", "0", " ", "s", "e", "c", "o", "n", "d", "s">>, 30>>,
     <<<<"1", "m">>, 60>>, <<<<"1", " ", "m", "i", "n", "u", "t", "e">>, 60>>,
     <<<<"5", "m">>, 300>>, <<<<"5", " ", "m", "i", "n", "u", "t", "e", "s">>, 300>>,
     <<<<"1", "0", "m">>, 600>>, <<<<"1", "0", " ", "m", "i", "n", "u", "t", "e", "s">>, 600>>,
     <<<<"1", "5", "m">>, 900>>, <<<<"1", "5", " ", "m", "i", "n", "u", "t", "e", "s">>, 900>>,
     <<<<"3", "0", "m">>, 1800>>, <<<<"3", "0", " ", "m", "i", "n", "u", "t", "e", "s">>, 1800>>,
     <<<<"1", "h">>, 3600>>, <<<<"1", " ", "h", "o", "u", "r">>, 3600>>,
     <<<<"6", "h">>, 21600>>, <<<<"6", " ", "h", "o", "u", "r", "s">>, 21600>>,
     <<<<"1", "2", "h">>, 43200>>, <<<<"1", "2", " ", "h", "o", "u", "r", "s">>, 43200>>,
     <<<<"1", "d">>, 86400>>, <<<<"1", " ", "d", "a", "y">>, 86400>>}

intervalToSeconds(interval) ==
    LET known == {e \in IntervalTable : e[1] = TrimSpace(interval)} IN
    IF known = {} THEN 3600 ELSE (CHOOSE e \in known : TRUE)[2]

RECURSIVE expandTimeGroup(_)
expandTimeGroup(sql) ==
    LET idx == Index(sql, TokenTimeGroupOpen)
        close == Index(From(sql, idx), <<")">>)
        end == close + idx - 1
        inner == SubSeq(sql, idx + Len(TokenTimeGroupOpen), end - 1)
        parts == SplitComma2(inner)
        column == TrimSpace(parts[1])
        interval == TrimQuotes(TrimSpace(parts[2]))
        secs == intervalToSeconds(interval)
        replacement ==
            <<"t", "o", "_", "t", "i", "m", "e", "s", "t", "a", "m", "p", "(", "(", "e", "p", "o", "c", "h", "_", "n", "s", "(">> \o column \o <<")", " ", "/", "/", " ", "1", "0", "0", "0", "0", "0", "0", "0", "0", "0", " ", "/", "/", " ">>
                \o Itoa(secs) \o <<")", " ", "*", " ">> \o Itoa(secs) \o <<")">>
    IN  IF idx = 0 THEN sql
        ELSE IF close = 0 THEN sql
        ELSE IF Len(parts) # 2 THEN sql
        ELSE expandTimeGroup(
                SubSeq(sql, 1, idx - 1) \o replacement \o From(sql, end + 1))

ApplyMacros(sql, tr) ==
    LET filtered == expandTimeFilter(sql, tr.From, tr.To)
        withFrom == ReplaceAll(filtered, TokenTimeFromCall, QuotedTime(tr.From))
        withTo == ReplaceAll(withFrom, TokenTimeToCall, QuotedTime(tr.To))
        withInterval ==
            ReplaceAll(withTo, TokenInterval, calculateInterval(tr.To - tr.From))
    IN  expandTimeGroup(withInterval)

\* ApplyMacrosWithSplit sizing $__interval by the chunk
ApplyMacrosWithSplitChunkInterval(sql, chunk, originalRange) ==
    ApplyMacros(sql, chunk)

ApplyMacrosWithSplit(sql, chunk, originalRange) ==
    LET filtered == expandTimeFilter(sql, chunk.From, chunk.To)
        withFrom == ReplaceAll(filtered, TokenTimeFromCall, QuotedTime(chunk.From))
        withTo == ReplaceAll(withFrom, TokenTimeToCall, QuotedTime(chunk.To))
        withInterval ==
            ReplaceAll(withTo, TokenInterval,
                       calculateInterval(originalRange.To - originalRange.From))
    IN  expandTimeGroup(withInterval)

----------------------------------------------------------------------------
(* Frames: data.Frame and mergeFrames *)

Min(S) == CHOOSE x \in S : \A y \in S : x <= y

\* a column: its name, the type of its vector and its values
Field(name, type, vals) == [name |-> name, type |-> type, vals |-> vals]

\* a *data.Frame that is not nil
DataFrame(fields) == [kind |-> "frame", fields |-> fields]

\* the nil *data.Frame
NoFrame == [kind |-> "nil", fields |-> <<>>]

\* the call does not return: a run-time panic leaves it
Panic == [kind |-> "panic", fields |-> <<>>]

\* the zero value Field.Extend appends to a nullable vector
NullValue == 0

\* Frame.RowLen returns no error: all columns have the length of the first
RowLenOk(f) ==
    \A k \in 1 .. Len(f.fields) : Len(f.fields[k].vals) = Len(f.fields[1].vals)

\* Frame.Rows: the length of the first column
Rows(f) == IF f.fields = <<>> THEN 0 ELSE Len(f.fields[1].vals)

\* the frames the loops of mergeFrames skip nothing of, whatever their columns
mergeEligibleAnyCount(f, expectedFields) ==
    f.kind = "frame" /\ f.fields # <<>> /\ RowLenOk(f)

\* mergeFrames: the frames after the base that its two loops do not skip
mergeEligible(f, expectedFields) ==
    f.kind = "frame" /\ Len(f.fields) = expectedFields /\ RowLenOk(f)

\* the values the copy loop reads for column k, from frames[i] on
RECURSIVE RestVals(_, _, _, _)
RestVals(frames, i, expectedFields, k) ==
    IF i > Len(frames) THEN <<>>
    ELSE (IF mergeEligible(frames[i], expectedFields)
          THEN (IF k <= Len(frames[i].fields)
                THEN frames[i].fields[k].vals
                ELSE [r \in 1 .. Rows(frames[i]) |-> NullValue])
          ELSE <<>>)
            \o RestVals(frames, i + 1, expectedFields, k)

\* the copy loop writing over the base frame's rows
WriteIdxFromZero(baseRows, n) == n

\* writeIdx when n rows have been written
WriteIdx(baseRows, n) == baseRows + n

\* the base alone: the first frame with columns, nil when there is none
mergeFramesBaseOnly(frames) ==
    LET bases == {i \in 1 .. Len(frames) :
                    frames[i].kind = "frame" /\ Len(frames[i].fields) > 0}
    IN  IF bases = {} THEN NoFrame ELSE frames[Min(bases)]

\* a base that need not have columns
IsBaseAnyFrame(f) == f.kind = "frame"

\* the test of the base search: f != nil && len(f.Fields) > 0
IsBase(f) == f.kind = "frame" /\ Len(f.fields) > 0

mergeFrames(frames) ==
    IF Len(frames) = 0 THEN NoFrame
    ELSE IF Len(frames) = 1 THEN frames[1]
    ELSE
    LET bases == {i \in 1 .. Len(frames) : IsBase(frames[i])}
    IN  IF bases = {} THEN frames[1]
        ELSE
        LET startIdx == Min(bases) + 1
            merged == frames[Min(bases)]
            expectedFields == Len(merged.fields)
            copied == {i \in startIdx .. Len(frames) :
                        mergeEligible(frames[i], expectedFields)}
            additionalRows == Len(RestVals(frames, startIdx, expectedFields, 1))
            baseRows == Rows(merged)
            extended(k) == Len(merged.fields[k].vals) + additionalRows
            \* f.Fields[fieldIdx] beyond the columns of f
            noField == \E i \in copied :
                Rows(frames[i]) > 0 /\ Len(frames[i].fields) < expectedFields
            \* Field.Set with a value of another type than the vector's
            wrongType == \E i \in copied : \E k \in 1 .. expectedFields :
                /\ Rows(frames[i]) > 0
                /\ k <= Len(frames[i].fields)
                /\ frames[i].fields[k].type # merged.fields[k].type
            \* Field.Set beyond the end of the extended vector
            outOfRange == \E k \in 1 .. expectedFields :
                \E n \in 0 .. additionalRows - 1 :
                    WriteIdx(baseRows, n) >= extended(k)
            newVals(k) ==
                LET rest == RestVals(frames, startIdx, expectedFields, k) IN
                [p \in 1 .. extended(k) |->
                    IF \E n \in 0 .. additionalRows - 1 :
                            WriteIdx(baseRows, n) + 1 = p
                    THEN rest[CHOOSE n \in 1 .. additionalRows :
                                WriteIdx(baseRows, n - 1) + 1 = p]
                    ELSE IF p <= Len(merged.fields[k].vals)
                    THEN merged.fields[k].vals[p]
                    ELSE NullValue]
        IN  IF additionalRows = 0 THEN merged
            ELSE IF noField \/ wrongType \/ outOfRange THEN Panic
            ELSE DataFrame([k \in 1 .. expectedFields |->
                    Field(merged.fields[k].name, merged.fields[k].type,
                          newVals(k))])

----------------------------------------------------------------------------
(* Frames: prepareFrames, ensureAscendingTimes and the SDK calls they make *)

\* Frame.TimeSeriesSchema: the first time column, the string columns as
\* factors, the other columns as values; wide without factors, long with
TimeSeriesSchema(f) ==
    LET timeIndices == {k \in 1 .. Len(f.fields) : f.fields[k].type = "time"}
        factorIndices == {k \in 1 .. Len(f.fields) : f.fields[k].type = "string"}
        valueIndices == (1 .. Len(f.fields)) \ (timeIndices \cup factorIndices)
        timeIndex == IF timeIndices = {} THEN 0 ELSE Min(timeIndices)
        others == valueIndices \cup (timeIndices \ {timeIndex})
    IN  [Type |-> IF timeIndices = {} \/ others = {} THEN "not"
                  ELSE IF factorIndices = {} THEN "wide"
                  ELSE "long",
         TimeIndex |-> timeIndex,
         FactorIndices |-> factorIndices,
         ValueIndices |-> others]

\* toTime: a null of a nullable time column is no time
ValidTime(v) == v # NullValue

\* the rows of f in the order p: row i of the result is row p[i] of f
Permute(f, p) ==
    DataFrame([k \in 1 .. Len(f.fields) |->
        Field(f.fields[k].name, f.fields[k].type,
              [i \in 1 .. Len(f.fields[k].vals) |-> f.fields[k].vals[p[i]]])])

\* sort.Slice with the less function time.Before: some order of the rows in
\* which no row is before a row of an earlier time; the order of rows of equal
\* times is not specified
SortSlice(times) ==
    {p \in Permutations(1 .. Len(times)) :
        \A i, j \in 1 .. Len(times) : i < j => ~(times[p[j]] < times[p[i]])}

\* ensureAscendingTimes: the frames it can return
ensureAscendingTimes(f, timeIdx) ==
    LET rowLen == Rows(f)
        times == f.fields[timeIdx].vals
        invalid == {i \in 1 .. rowLen : ~ValidTime(times[i])}
        unordered == {i \in 2 .. rowLen : times[i] < times[i - 1]}
        needsSorting ==
            /\ unordered # {}
            /\ \A i \in invalid : i > Min(unordered)
    IN  IF ~RowLenOk(f) \/ rowLen < 2 THEN {f}
        ELSE IF ~needsSorting THEN {f}
        ELSE {Permute(f, p) : p \in SortSlice(times)}

\* the names of the series of a long frame: the values of its factor columns
SeriesOf(f, schema, r) ==
    [k \in schema.FactorIndices |-> f.fields[k].vals[r]]

\* data.LongToWide without fill: an error, or the frame with one row for each
\* time and, for each value column, one column for each series
LongToWide(f) ==
    LET schema == TimeSeriesSchema(f)
        rowLen == Rows(f)
        times == f.fields[schema.TimeIndex].vals
        failed ==
            \/ schema.Type # "long"
            \/ ~RowLenOk(f)
            \/ rowLen = 0
            \/ \E i \in 1 .. rowLen : ~ValidTime(times[i])
            \/ \E i \in 2 .. rowLen : times[i] < times[i - 1]
        instants == {times[i] : i \in 1 .. rowLen}
        wideTimes == [n \in 1 .. Cardinality(instants) |->
            CHOOSE t \in instants :
                Cardinality({u \in instants : u < t}) = n - 1]
        series == {SeriesOf(f, schema, r) : r \in 1 .. rowLen}
        \* the value of column v for series s at time t: the last row that has it
        cell(v, s, t) ==
            LET rows == {r \in 1 .. rowLen :
                            times[r] = t /\ SeriesOf(f, schema, r) = s}
            IN  IF rows = {} THEN NullValue
                ELSE f.fields[v].vals[CHOOSE r \in rows : \A q \in rows : q <= r]
        columns == {[name |-> f.fields[v].name, labels |-> s,
                     type |-> f.fields[v].type,
                     vals |-> [n \in 1 .. Len(wideTimes) |-> cell(v, s, wideTimes[n])]] :
                        v \in schema.ValueIndices, s \in series}
    IN  IF failed THEN [err |-> TRUE, time |-> <<>>, columns |-> {}]
        ELSE [err |-> FALSE, time |-> wideTimes, columns |-> columns]

\* the result of prepareFrames: the frames of data.Frames, each with its kind
\* of series, its time column and its rows
Prepared(f, type) ==
    LET schema == TimeSeriesSchema(f) IN
    <<[meta |-> type,
       frame |-> f,
       time |-> IF schema.TimeIndex = 0 THEN <<>>
                ELSE f.fields[schema.TimeIndex].vals]>>

PreparedWide(w) ==
    <<[meta |-> "timeseries-wide", frame |-> w, time |-> w.time]>>

\* prepareFrames for the frame that ensureAscendingTimes returned as sorted
prepareFrames(f, Format, sorted) ==
    IF f.kind = "nil" THEN <<>>
    ELSE IF Format = "table" THEN Prepared(f, "table")
    ELSE
    LET schema == TimeSeriesSchema(f) IN
    IF schema.Type = "wide" THEN Prepared(f, "timeseries-wide")
    ELSE IF schema.Type = "long"
    THEN (IF LongToWide(sorted).err
          THEN Prepared(sorted, "timeseries-long")
          ELSE PreparedWide(LongToWide(sorted)))
    ELSE Prepared(f, "unknown")

----------------------------------------------------------------------------
(* JSONToDataFrame: the frame of a decoded {columns, data} document *)

\* a decoded JSON value (interface{}): nil, a float64, a string or a bool
JsonNull == [t |-> "null", s |-> <<>>, n |-> 0]

JsonNumber(n) == [t |-> "number", s |-> <<>>, n |-> n]

JsonString(s) == [t |-> "string", s |-> s, n |-> 0]

JsonBool(b) == [t |-> "bool", s |-> <<>>, n |-> IF b THEN 1 ELSE 0]

\* a decoded JSON array ([]interface{})
JsonArray(items) == [k |-> "array", items |-> items]

\* a decoded JSON value that is no array
JsonOther == [k |-> "other", items |-> <<>>]

\* a key the document does not have
JsonAbsent == [k |-> "absent", items |-> <<>>]

\* the call returns an error
ErrorResult == [kind |-> "error", fields |-> <<>>]

\* a *time.Time of a time column
TimeValue(t) == [t |-> "time", s |-> <<>>, n |-> t]

\* the time.Time zero value
ZeroTime == [t |-> "zerotime", s |-> <<>>, n |-> 0]

\* the texts time.Parse accepts, by layout, among the texts of the model: the
\* fifth second after the epoch in RFC 3339, with microseconds, and bare
TimeTexts ==
    {<<"RFC3339", <<"1", "9", "7", "0", "-", "0", "1", "-", "0", "1", "T", "0", "0", ":", "0", "0", ":", "0", "5", "Z">>, 5>>,
     <<"micro", <<"1", "9", "7", "0", "-", "0", "1", "-", "0", "1", "T", "0", "0", ":", "0", "0", ":", "0", "5", ".", "0", "0", "0", "0", "0", "0">>, 5>>,
     <<"bare", <<"1", "9", "7", "0", "-", "0", "1", "-", "0", "1", "T", "0", "0", ":", "0", "0", ":", "0", "5">>, 5>>}

\* time.Parse(layout, v): the parsed instants (none when it returns an error)
ParseTime(layout, v) ==
    {TimeUnix(e[3]) : e \in {x \in TimeTexts : x[1] = layout /\ x[2] = v}}

\* the column names that make a string column a time column
TimeColumnNames ==
    {<<"t", "i", "m", "e">>, <<"t", "i", "m", "e", "s", "t", "a", "m", "p">>, <<"_", "t", "i", "m", "e">>}

\* fmt.Sprintf("%v", cell) of a cell that is not nil
SprintfV(cell) ==
    IF cell.t = "string" THEN cell.s
    ELSE IF cell.t = "number" THEN Itoa(cell.n)
    ELSE IF cell.n = 1 THEN <<"t", "r", "u", "e">>
    ELSE <<"f", "a", "l", "s", "e">>

\* the field type inferred from the sample, the first non-nil cell of the
\* column (JsonNull when every cell is nil)
InferFieldType(colName, sample) ==
    IF sample.t = "number" THEN "float64"
    ELSE IF sample.t = "string"
    THEN IF colName \in TimeColumnNames THEN "time"
         ELSE IF ParseTime("RFC3339", sample.s) # {} THEN "time"
         ELSE IF ParseTime("micro", sample.s) # {} THEN "time"
         ELSE "string"
    ELSE IF sample.t = "bool" THEN "bool"
    ELSE "string"

\* the value a cell that is not nil gets in a time column (a number is taken
\* as seconds: the numbers of the model are below 1e12)
TimeCell(cell) ==
    IF cell.t = "string"
    THEN LET parsed ==
                IF ParseTime("RFC3339", cell.s) # {}
                THEN ParseTime("RFC3339", cell.s)
                ELSE IF ParseTime("micro", cell.s) # {}
                THEN ParseTime("micro", cell.s)
                ELSE ParseTime("bare", cell.s)
         IN  IF parsed = {} THEN JsonNull
             ELSE TimeValue(CHOOSE t \in parsed : TRUE)
    ELSE IF cell.t = "number" THEN TimeValue(TimeUnix(cell.n))
    ELSE ZeroTime

\* the type assertion every cell of a column of this type goes through
\* succeeds on the cell
AssertionHolds(fieldType, cell) ==
    IF fieldType = "float64" THEN cell.t = "number"
    ELSE IF fieldType = "bool" THEN cell.t = "bool"
    ELSE TRUE

\* the value of a cell that is not nil in a column of the inferred type
CoerceCell(fieldType, cell) ==
    IF fieldType = "time" THEN TimeCell(cell)
    ELSE IF fieldType = "string" THEN JsonString(SprintfV(cell))
    ELSE cell

JSONToDataFrame(doc) ==
    IF doc.columns.k = "absent" THEN ErrorResult
    ELSE IF doc.columns.k # "array" THEN ErrorResult
    \* columnNames[i] = col.(string)
    ELSE IF \E i \in 1 .. Len(doc.columns.items) :
                doc.columns.items[i].t # "string" THEN Panic
    ELSE IF doc.data.k = "absent" THEN ErrorResult
    ELSE IF doc.data.k # "array" THEN ErrorResult
    ELSE IF Len(doc.data.items) = 0 THEN DataFrame(<<>>)
    ELSE IF doc.data.items[1].k # "array" THEN ErrorResult
    ELSE
    LET columnNames == doc.columns.items
        dataRows == doc.data.items
        numCols == Len(dataRows[1].items)
        numRows == Len(dataRows)
        \* dataRows[rowIdx].([]interface{}) and row[colIdx] succeed
        cellExists(rowIdx, colIdx) ==
            /\ dataRows[rowIdx].k = "array"
            /\ colIdx <= Len(dataRows[rowIdx].items)
        cell(rowIdx, colIdx) == dataRows[rowIdx].items[colIdx]
        \* the rows the search for the sample visits: up to the first row
        \* with a non-nil cell, or all of them
        nonNil(colIdx) ==
            {r \in 1 .. numRows :
                cellExists(r, colIdx) /\ cell(r, colIdx) # JsonNull}
        broken(colIdx) == {r \in 1 .. numRows : ~cellExists(r, colIdx)}
        sample(colIdx) ==
            IF nonNil(colIdx) = {} THEN JsonNull
            ELSE cell(Min(nonNil(colIdx)), colIdx)
        fieldType(colIdx) ==
            InferFieldType(columnNames[colIdx].s, sample(colIdx))
        faults(colIdx) ==
            \* columnNames[colIdx] beyond the names
            \/ colIdx > Len(columnNames)
            \* the loops over all rows of the column
            \/ broken(colIdx) # {}
            \/ \E r \in 1 .. numRows :
                /\ cell(r, colIdx) # JsonNull
                /\ ~AssertionHolds(fieldType(colIdx), cell(r, colIdx))
        field(colIdx) ==
            Field(columnNames[colIdx].s, fieldType(colIdx),
                  [r \in 1 .. numRows |->
                      IF cell(r, colIdx) = JsonNull THEN JsonNull
                      ELSE CoerceCell(fieldType(colIdx), cell(r, colIdx))])
    IN  IF \E colIdx \in 1 .. numCols : faults(colIdx) THEN Panic
        ELSE DataFrame([colIdx \in 1 .. numCols |-> field(colIdx)])

----------------------------------------------------------------------------
(* Arrow decoding: frameForRecords of the query path, ArrowToDataFrame of *)
(* the health check                                                        *)

\* the decoder of querySingle and executeChunk
QueryPath == "QueryArrowFlightSQLStyle"

\* the decoder of CheckHealth
HealthPath == "QueryArrow"

\* the Arrow type ids both decoders have a typed field and a typed append for
TypedArrowIds ==
    {"STRING", "FLOAT32", "FLOAT64", "INT8", "INT16", "INT32", "INT64",
     "UINT8", "UINT16", "UINT32", "UINT64", "BOOL", "TIMESTAMP"}

\* the element type of the field made for a column of the schema: the Go type
\* of a typed id (DURATION is typed in ArrowToDataFrame only), string otherwise
createEmptyField(decoder, f) ==
    LET elem ==
            IF f.type = "STRING" THEN "string"
            ELSE IF f.type = "BOOL" THEN "bool"
            ELSE IF f.type = "TIMESTAMP" THEN "time"
            ELSE IF f.type \in TypedArrowIds THEN f.type
            ELSE IF f.type = "DURATION" /\ decoder = HealthPath THEN "INT64"
            ELSE "string"
    IN  Field(f.name, elem, <<>>)

\* a value of a typed column as a value of the field's element type
TypedValue(elem, n) == [t |-> elem, s |-> <<>>, n |-> n]

\* appendTypedColumn, appendTimestampColumn, appendDuration: every slot of the
\* array appended, a null slot as nil
AppendTyped(field, col) ==
    [field EXCEPT !.vals =
        @ \o [i \in 1 .. Len(col) |->
                IF col[i] = JsonNull THEN JsonNull
                ELSE TypedValue(field.type, col[i].n)]]

\* appendGenericAsString: fmt.Sprintf("%v", col.GetOneForMarshal(i)) of every
\* slot that is not null
appendGenericAsString(field, col) ==
    [field EXCEPT !.vals =
        @ \o [i \in 1 .. Len(col) |->
                IF col[i] = JsonNull THEN JsonNull
                ELSE JsonString(SprintfV(col[i]))]]

\* appendArrowColumnToField (query path) and appendColumnToField (health
\* check): the field with the column appended, or the error of the query path
appendArrowColumnToField(decoder, type, field, col) ==
    IF type \in TypedArrowIds THEN AppendTyped(field, col)
    ELSE IF decoder = HealthPath
    THEN IF type = "DURATION" THEN AppendTyped(field, col)
         ELSE appendGenericAsString(field, col)
    ELSE Field(field.name, "error", <<>>)

\* the records appended one after the other to the fields made from the
\* schema; the first error ends the decoding
RECURSIVE AppendRecords(_, _, _, _)
AppendRecords(decoder, schema, fields, records) ==
    IF records = <<>> THEN DataFrame(fields)
    ELSE LET appended ==
                [c \in 1 .. Len(fields) |->
                    appendArrowColumnToField(decoder, schema[c].type,
                                             fields[c], Head(records)[c])]
         IN  IF \E c \in 1 .. Len(fields) : appended[c].type = "error"
             THEN ErrorResult
             ELSE AppendRecords(decoder, schema, appended, Tail(records))

\* frameForRecords and ArrowToDataFrame on a stream that reads without error
frameForRecords(decoder, schema, records) ==
    IF records = <<>> THEN DataFrame(<<>>)
    ELSE AppendRecords(decoder, schema,
                       [c \in 1 .. Len(schema) |->
                           createEmptyField(decoder, schema[c])],
                       records)

----------------------------------------------------------------------------
(* OptimizeTimeSeriesQuery *)

ToLowerChar(c) ==
    IF \E i \in 1 .. 26 : UpperLetters[i] = c
    THEN LowerLetters[CHOOSE i \in 1 .. 26 : UpperLetters[i] = c]
    ELSE c

\* strings.ToLower
ToLower(s) == [i \in 1 .. Len(s) |-> ToLowerChar(s[i])]

\* strings.LastIndex, counted from 1; 0 when sub does not occur in s
LastIndex(s, sub) ==
    LET hits == {i \in 1 .. (Len(s) - Len(sub) + 1) :
                    SubSeq(s, i, i + Len(sub) - 1) = sub}
    IN  IF hits = {} THEN 0
        ELSE CHOOSE i \in hits : \A j \in hits : i >= j

KwOrderBy ==
    <<"o", "r", "d", "e", "r", " ", "b", "y">>

KwTime ==
    <<"t", "i", "m", "e">>

KwLimitLower ==
    <<" ", "l", "i", "m", "i", "t", " ">>

KwOffsetLower ==
    <<" ", "o", "f", "f", "s", "e", "t", " ">>

OrderByTimeAsc ==
    <<" ", "O", "R", "D", "E", "R", " ", "B", "Y", " ", "t", "i", "m", "e", " ", "A", "S", "C">>

\* the cutset of strings.TrimRight(sql, " \t\n\r;")
StatementEndChars == {" ", "\t", "\n", "\r", ";"}

\* sqlLower := strings.ToLower(strings.TrimSpace(sql))
SearchedText(sql) == ToLower(TrimSpace(sql))

OptimizeTimeSeriesQuery(sql) ==
    LET sqlLower == SearchedText(sql)
        trimmed == TrimRight(sql, StatementEndChars)
        \* the positions of Go, counted from 0, -1 when there is none
        limitPos == LastIndex(sqlLower, KwLimitLower) - 1
        offsetPos == LastIndex(sqlLower, KwOffsetLower) - 1
        insertPos ==
            IF limitPos # -1 /\ (offsetPos = -1 \/ limitPos < offsetPos)
            THEN limitPos
            ELSE IF offsetPos # -1 THEN offsetPos
            ELSE Len(trimmed)
    IN  IF Contains(sqlLower, KwOrderBy) THEN sql
        ELSE IF ~Contains(sqlLower, KwTime) THEN sql
        ELSE IF insertPos < Len(trimmed)
        THEN SubSeq(trimmed, 1, insertPos) \o OrderByTimeAsc
                \o From(trimmed, insertPos + 1)
        ELSE trimmed \o OrderByTimeAsc

----------------------------------------------------------------------------
(* The chunk scheduler of query() and the request loop of QueryData *)

\* capacity of the semaphore channel
SemaphoreCap == 4

\* getSettings: the database used when the datasource names none
DefaultDatabase == "default"

\* a per-query database override
OtherDatabase == "analytics"

\* no backend request was issued
NoRequest == "-"

\* the reference ids of the queries of the request, in request order
RefIDs == <<"A", "B">>

NumQueries == Len(RefIDs)

\* t.Format("2006-01-02 15:04"): the instant printed to the minute
FormatMinute(t) == t \div Minute

NoErr == [cause |-> "none", bounds |-> <<>>]

\* fmt.Errorf("[chunk %s to %s] ...", ch.From.Format(..), ch.To.Format(..), ..)
ChunkError(ch, cause) ==
    [cause |-> cause, bounds |-> <<FormatMinute(ch.From), FormatMinute(ch.To)>>]

\* ctx.Err()
CtxErr == [cause |-> "ctx", bounds |-> <<>>]

\* an error of querySingle's backend call
SingleError == [cause |-> "backend", bounds |-> <<>>]

NilFrame == [nil |-> TRUE, From |-> 0, To |-> 0]

\* the frame decoded from the backend's answer to the SQL of range tr
Frame(tr) == [nil |-> FALSE, From |-> tr.From, To |-> tr.To]

\* chunkResult{}: the zero value of a slot of results
ZeroResult == [frame |-> NilFrame, err |-> NoErr]

\* what a chunk task records after executeChunk returned or panicked
ChunkOutcome(ch, outcome) ==
    IF outcome = "frame" THEN [frame |-> Frame(ch), err |-> NoErr]
    ELSE IF outcome = "error" THEN [frame |-> NilFrame, err |-> ChunkError(ch, "backend")]
    ELSE [frame |-> NilFrame, err |-> ChunkError(ch, "panic")]

\* a result appended to the results recorded so far
StoreResultAppend(res, idx, r) ==
    LET k == CHOOSE k \in 1 .. Len(res) :
                 /\ res[k] = ZeroResult
                 /\ \A j \in 1 .. k - 1 : res[j] # ZeroResult
    IN  [res EXCEPT ![k] = r]

\* results[idx] = chunkResult{...}
StoreResult(res, idx, r) == [res EXCEPT ![idx] = r]

\* a send that never waits for a free slot
CanSendUnbounded(sem) == TRUE

\* semaphore <- struct{}{} can proceed
CanSend(sem) == sem < SemaphoreCap

\* the override written into the shared settings value
ApplyOverrideInPlace(shared, database) ==
    LET changed == IF database # ""
                   THEN [shared EXCEPT !.Database = database]
                   ELSE shared
    IN  [shared |-> changed, local |-> changed]

\* query(): the per-query database override; shared is what the caller's
\* pointer refers to afterwards, local what query() uses
ApplyOverride(shared, database) ==
    [shared |-> shared,
     local |-> IF database # ""
               THEN [shared EXCEPT !.Database = database]
               ELSE shared]

\* a chunk task that starts over after a backend error
AfterReturnRetry(outcome) == IF outcome = "error" THEN "spawned" ELSE "done"

\* chunk task: after results[idx] is written the goroutine returns, whatever
\* executeChunk returned
AfterReturn(outcome) == "done"

\* a select without the ctx.Done() case: cancellation wakes nobody
NoWakeOnCancel(p) == p

\* closing ctx.Done() wakes every task parked in the select; each resumes in
\* the ctx.Done() case
WakeOnCancel(p) ==
    [i \in DOMAIN p |-> IF p[i] = "blocked" THEN "ctxwake" ELSE p[i]]

ErrResponse(err) == [kind |-> "error", err |-> err, orderedFrames |-> <<>>]

FramesResponse(frames) ==
    [kind |-> "frames", err |-> NoErr, orderedFrames |-> frames]

NoResponse == [kind |-> "none", err |-> NoErr, orderedFrames |-> <<>>]

FailingSlots(res) == {i \in 1 .. Len(res) : res[i].err # NoErr}

\* the scan returning the frames of the chunks that succeeded
ScanResultsPartial(res) ==
    FramesResponse(SelectSeq([i \in 1 .. Len(res) |-> res[i].frame],
                             LAMBDA f : ~f.nil))

\* query(): collect frames in order, fail on first error
ScanResults(res) ==
    IF FailingSlots(res) # {}
    THEN ErrResponse(res[Min(FailingSlots(res))].err)
    ELSE FramesResponse(SelectSeq([i \in 1 .. Len(res) |-> res[i].frame],
                                  LAMBDA f : ~f.nil))


\* SELECT v FROM t WHERE $__timeFilter(time)
SqlFilter ==
    <<"S", "E", "L", "E", "C", "T", " ", "v", " ", "F", "R", "O", "M", " ",
      "t", " ", "W", "H", "E", "R", "E", " ", "$", "_", "_", "t", "i", "m",
      "e", "F", "i", "l", "t", "e", "r", "(", "t", "i", "m", "e", ")">>

\* SELECT v FROM t WHERE $__timeFilter(time) LIMIT 10
SqlLimit ==
    <<"S", "E", "L", "E", "C", "T", " ", "v", " ", "F", "R", "O", "M", " ",
      "t", " ", "W", "H", "E", "R", "E", " ", "$", "_", "_", "t", "i", "m",
      "e", "F", "i", "l", "t", "e", "r", "(", "t", "i", "m", "e", ")", " ",
      "L", "I", "M", "I", "T", " ", "1", "0">>


\* the longest query range of Spec, in hours
MaxSpanHours == 4

MaxTasks == MaxSpanHours + 1

\* 10:37 on the first day after the epoch
QueryFrom == 10 * Hour + 37 * Minute

\* the queries a request of Spec is made of: split queries of 1 .. MaxSpanHours
\* hours, a split query with a database override, single-shot queries with
\* and without an override, and a query that a LIMIT clause keeps single-shot
AllQueryInputs ==
    {[Database |-> "", SplitDuration |-> "1h", SQL |-> SqlFilter, span |-> h] :
        h \in 1 .. MaxSpanHours}
    \cup {[Database |-> OtherDatabase, SplitDuration |-> "1h", SQL |-> SqlFilter,
           span |-> 1]}
    \cup {[Database |-> d, SplitDuration |-> "off", SQL |-> SqlFilter, span |-> 1] :
            d \in {"", OtherDatabase}}
    \cup {[Database |-> "", SplitDuration |-> "1h", SQL |-> SqlLimit,
           span |-> MaxSpanHours]}

\* the k-th query of the request: any of them first, then one of a short range
QueryInputs(k) ==
    IF k = 1 THEN AllQueryInputs ELSE {in \in AllQueryInputs : in.span = 1}

InputRange(in) == TimeRange(QueryFrom, QueryFrom + in.span * Hour)

\* the split decision and the chunk plan of each query of QueryInputs
PlannedInputs ==
    [in \in AllQueryInputs |-> PlanQuery(in.SQL, in.SplitDuration, InputRange(in))]

Tasks == 1 .. Len(chunks)

\* task i ends while a task of lower index has not ended
Overtakes(i) == \E j \in 1 .. i - 1 : pc[j] # "done"

\* QueryData: response.Responses[q.RefID] = res, then the next query
Answer(res) ==
    /\ response' = res
    /\ responses' = [responses EXCEPT ![qm.RefID] = res.kind]
    /\ answered' = answered + 1
    /\ prevDatabase' = qm.Database
    /\ phase' = IF answered + 1 = NumQueries THEN "returned" ELSE "idle"

\* QueryData takes the next query and query() runs up to its backend call
\* (single-shot) or up to wg.Wait() (split: every chunk goroutine is started)
StartQuery(in) ==
    /\ phase = "idle"
    /\ answered < NumQueries
    /\ LET o == ApplyOverride(settings, in.Database)
           plan == PlannedInputs[in]
       IN  /\ qm' = [RefID |-> RefIDs[answered + 1], SQL |-> in.SQL,
                     Database |-> in.Database, SplitDuration |-> in.SplitDuration]
           /\ timeRange' = InputRange(in)
           /\ settings' = o.shared
           /\ qsettings' = o.local
           /\ response' = NoResponse
           /\ overtaken' = FALSE
           /\ semaphore' = 0
           /\ sendq' = <<>>
           /\ chunks' = plan.chunks
           /\ pc' = [i \in 1 .. Len(plan.chunks) |-> "spawned"]
           /\ results' = [i \in 1 .. Len(plan.chunks) |-> ZeroResult]
           /\ sentDb' = [i \in 1 .. Len(plan.chunks) |-> NoRequest]
           /\ singleDb' = IF plan.splitting THEN NoRequest ELSE o.local.Database
           /\ calls' = [i \in 1 .. Len(plan.chunks) |-> 0]
           /\ singleCalls' = IF plan.splitting THEN 0 ELSE 1
           /\ phase' = IF plan.splitting THEN "split" ELSE "single"
    /\ UNCHANGED <<ctxDone, answered, responses, prevDatabase>>
    /\ UNCHANGED pureVars

\* query(): the query JSON does not unmarshal
BadQuery ==
    /\ phase = "idle"
    /\ answered < NumQueries
    /\ responses' = [responses EXCEPT ![RefIDs[answered + 1]] = "error"]
    /\ answered' = answered + 1
    /\ phase' = IF answered + 1 = NumQueries THEN "returned" ELSE "idle"
    /\ UNCHANGED <<ctxDone, settings, prevDatabase>>
    /\ UNCHANGED queryVars
    /\ UNCHANGED pureVars

\* querySingle(): the backend call returns
SingleReturn(outcome) ==
    /\ phase = "single"
    /\ Answer(IF outcome = "frame"
              THEN FramesResponse(<<Frame(timeRange)>>)
              ELSE ErrResponse(SingleError))
    /\ UNCHANGED <<ctxDone, settings>>
    /\ UNCHANGED <<qm, timeRange, qsettings, chunks, pc, results, semaphore,
                   sendq, sentDb, singleDb, overtaken, calls, singleCalls>>
    /\ UNCHANGED pureVars

\* chunk task: the select takes the send case; executeChunk issues the request
AcquireSlot(i) ==
    /\ phase = "split"
    /\ pc[i] = "spawned"
    /\ CanSend(semaphore)
    /\ semaphore' = semaphore + 1
    /\ pc' = [pc EXCEPT ![i] = "running"]
    /\ sentDb' = [sentDb EXCEPT ![i] = qsettings.Database]
    /\ calls' = [calls EXCEPT ![i] = @ + 1]
    /\ UNCHANGED reqVars
    /\ UNCHANGED <<qm, timeRange, qsettings, chunks, results, sendq, singleDb,
                   overtaken, singleCalls, response>>
    /\ UNCHANGED pureVars

\* chunk task: the select takes the ctx.Done() case on arrival
CtxDoneAtSelect(i) ==
    /\ phase = "split"
    /\ pc[i] = "spawned"
    /\ ctxDone
    /\ results' = StoreResult(results, i, [frame |-> NilFrame, err |-> CtxErr])
    /\ pc' = [pc EXCEPT ![i] = "done"]
    /\ overtaken' = (overtaken \/ Overtakes(i))
    /\ UNCHANGED reqVars
    /\ UNCHANGED <<qm, timeRange, qsettings, chunks, semaphore, sendq, sentDb,
                   singleDb, calls, singleCalls, response>>
    /\ UNCHANGED pureVars

\* chunk task: no case of the select can proceed; the goroutine parks on both
\* channels and resumes in the case that becomes ready first
Park(i) ==
    /\ phase = "split"
    /\ pc[i] = "spawned"
    /\ ~CanSend(semaphore)
    /\ ~ctxDone
    /\ pc' = [pc EXCEPT ![i] = "blocked"]
    /\ sendq' = Append(sendq, i)
    /\ UNCHANGED reqVars
    /\ UNCHANGED <<qm, timeRange, qsettings, chunks, results, semaphore, sentDb,
                   singleDb, overtaken, calls, singleCalls, response>>
    /\ UNCHANGED pureVars

\* the caller cancels the context (or its deadline passes): ctx.Done() is
\* closed, which readies the receive case of every select parked on it
Cancel ==
    /\ ~ctxDone
    /\ phase \notin {"returned", "panicked"}
    /\ ctxDone' = TRUE
    /\ pc' = WakeOnCancel(pc)
    /\ sendq' = SelectSeq(sendq, LAMBDA j : pc'[j] = "blocked")
    /\ UNCHANGED <<settings, answered, responses, prevDatabase, phase>>
    /\ UNCHANGED <<qm, timeRange, qsettings, chunks, results, semaphore, sentDb,
                   singleDb, overtaken, calls, singleCalls, response>>
    /\ UNCHANGED pureVars

\* chunk task woken by the cancellation: results[idx] = ctx.Err(), return
CtxWake(i) ==
    /\ phase = "split"
    /\ i \in Tasks
    /\ pc[i] = "ctxwake"
    /\ results' = StoreResult(results, i, [frame |-> NilFrame, err |-> CtxErr])
    /\ pc' = [pc EXCEPT ![i] = "done"]
    /\ overtaken' = (overtaken \/ Overtakes(i))
    /\ UNCHANGED reqVars
    /\ UNCHANGED <<qm, timeRange, qsettings, chunks, semaphore, sendq, sentDb,
                   singleDb, calls, singleCalls, response>>
    /\ UNCHANGED pureVars

\* chunk task: executeChunk returns a frame or an error, or panics; the task
\* records the outcome in its slot and gives its semaphore token back. A task
\* parked on the semaphore takes the freed slot and issues its request.
ChunkReturn(i, outcome) ==
    /\ phase = "split"
    /\ pc[i] = "running"
    /\ results' = StoreResult(results, i, ChunkOutcome(chunks[i], outcome))
    /\ IF sendq # <<>>
       THEN /\ pc' = [pc EXCEPT ![i] = AfterReturn(outcome),
                                ![Head(sendq)] = "running"]
            /\ sentDb' = [sentDb EXCEPT ![Head(sendq)] = qsettings.Database]
            /\ calls' = [calls EXCEPT ![Head(sendq)] = @ + 1]
            /\ sendq' = Tail(sendq)
            /\ semaphore' = semaphore
       ELSE /\ pc' = [pc EXCEPT ![i] = AfterReturn(outcome)]
            /\ semaphore' = semaphore - 1
            /\ UNCHANGED <<sentDb, sendq, calls>>
    /\ overtaken' = (overtaken \/ Overtakes(i))
    /\ UNCHANGED reqVars
    /\ UNCHANGED <<qm, timeRange, qsettings, chunks, singleDb, singleCalls,
                   response>>
    /\ UNCHANGED pureVars

\* query(): wg.Wait() returns, the results are scanned and the query answered
Collect ==
    /\ phase = "split"
    /\ \A i \in Tasks : pc[i] = "done"
    /\ Answer(ScanResults(results))
    /\ UNCHANGED <<ctxDone, settings>>
    /\ UNCHANGED <<qm, timeRange, qsettings, chunks, pc, results, semaphore,
                   sendq, sentDb, singleDb, overtaken, calls, singleCalls>>
    /\ UNCHANGED pureVars

\* the frames of two chunks of one query: the value column decoded as numbers
\* in the first and, every value of the chunk being null, as strings in the
\* second
MixedChunkFrames ==
    <<DataFrame(<<Field("time", "time", <<1>>), Field("value", "float64", <<5>>)>>),
      DataFrame(<<Field("time", "time", <<2>>),
                  Field("value", "string", <<NullValue>>)>>)>>

\* query(): wg.Wait() returns, every chunk has its frame, and mergeFrames
\* panics on frames like MixedChunkFrames. Nothing on the path from
\* mergeFrames to QueryData recovers: the request ends without a response.
MergeFault ==
    /\ phase = "split"
    /\ \A i \in Tasks : pc[i] = "done"
    /\ FailingSlots(results) = {}
    /\ Len(chunks) >= Len(MixedChunkFrames)
    /\ mergeFrames(MixedChunkFrames) = Panic
    /\ phase' = "panicked"
    /\ UNCHANGED <<ctxDone, settings, answered, responses, prevDatabase>>
    /\ UNCHANGED queryVars
    /\ UNCHANGED pureVars

MacroIdle ==
    /\ mSegs = <<>>
    /\ mSplitDuration = ""
    /\ mOriginal = TimeRange(0, 0)
    /\ mChunk = TimeRange(0, 0)
    /\ mMode = "idle"
    /\ mOut = <<>>
    /\ mAgain = <<>>

MergeIdle ==
    /\ gFrames = <<>>
    /\ gOut = [kind |-> "nil", fields |-> <<>>]
    /\ gDone = TRUE

PrepareIdle ==
    /\ fFrame = [kind |-> "nil", fields |-> <<>>]
    /\ fFormat = ""
    /\ fSorted = [kind |-> "nil", fields |-> <<>>]
    /\ fOut = <<>>
    /\ fDone = TRUE

SizeIdle ==
    /\ dSetting = ""
    /\ dRange = TimeRange(0, 0)
    /\ dParsed = NoSplit
    /\ dChunks = <<>>
    /\ dDone = TRUE

JsonIdle ==
    /\ jDoc = [columns |-> [k |-> "absent", items |-> <<>>],
               data |-> [k |-> "absent", items |-> <<>>]]
    /\ jOut = NoFrame
    /\ jDone = TRUE

ArrowIdle ==
    /\ aSchema = <<>>
    /\ aRecords = <<>>
    /\ aDecoder = ""
    /\ aOut = NoFrame
    /\ aDone = TRUE

ExpandIdle ==
    /\ eSegs = <<>>
    /\ eFn = "idle"
    /\ eOut = <<>>

OptimizeIdle ==
    /\ oSql = <<>>
    /\ oOut = <<>>
    /\ oDone = TRUE

PlanIdle ==
    /\ pSql = <<>>
    /\ pSplitDuration = ""
    /\ pRange = TimeRange(0, 0)
    /\ pPlan = [splitting |-> FALSE, chunks |-> <<>>]
    /\ pDone = TRUE

SplitIdle ==
    /\ sFrom = 0
    /\ sTo = 0
    /\ sChunkSize = 0
    /\ sChunks = <<>>
    /\ sDone = TRUE

QueryIdle ==
    /\ qm = [RefID |-> "", SQL |-> <<>>, Database |-> "", SplitDuration |-> ""]
    /\ timeRange = TimeRange(0, 0)
    /\ qsettings = [Database |-> DefaultDatabase]
    /\ chunks = <<>>
    /\ pc = <<>>
    /\ results = <<>>
    /\ semaphore = 0
    /\ sendq = <<>>
    /\ sentDb = <<>>
    /\ singleDb = NoRequest
    /\ overtaken = FALSE
    /\ calls = <<>>
    /\ singleCalls = 0
    /\ response = NoResponse

\* QueryData after getSettings, before the first query
RequestInit ==
    /\ ctxDone = FALSE
    /\ settings = [Database |-> DefaultDatabase]
    /\ answered = 0
    /\ responses = [r \in {RefIDs[k] : k \in 1 .. NumQueries} |-> "none"]
    /\ prevDatabase = ""
    /\ phase = "idle"

Init ==
    /\ RequestInit /\ QueryIdle
    /\ SplitIdle /\ PlanIdle /\ MacroIdle /\ MergeIdle /\ PrepareIdle /\ SizeIdle /\ JsonIdle /\ ArrowIdle /\ ExpandIdle /\ OptimizeIdle

Next ==
    \/ \E in \in QueryInputs(answered + 1) : StartQuery(in)
    \/ BadQuery
    \/ \E outcome \in {"frame", "error"} : SingleReturn(outcome)
    \/ \E i \in Tasks : AcquireSlot(i)
    \/ \E i \in Tasks : CtxDoneAtSelect(i)
    \/ \E i \in Tasks : Park(i)
    \/ Cancel
    \/ \E i \in Tasks : CtxWake(i)
    \/ \E i \in Tasks, outcome \in {"frame", "error", "panic"} :
           ChunkReturn(i, outcome)
    \/ Collect
    \/ MergeFault

Spec == Init /\ [][Next]_vars

\* the scheduler runs a goroutine that is ready: a task woken by the
\* cancellation records its error. Nothing makes a backend call return.
LiveSpec == Spec /\ \A i \in 1 .. MaxTasks : WF_vars(CtxWake(i))

\* the next step of chunk task i, whatever it is
TaskStep(i) ==
    /\ i \in Tasks
    /\ \/ AcquireSlot(i)
       \/ CtxDoneAtSelect(i)
       \/ Park(i)
       \/ CtxWake(i)
       \/ \E outcome \in {"frame", "error", "panic"} : ChunkReturn(i, outcome)

\* every backend call returns and the scheduler runs every goroutine that is
\* ready: each chunk task takes its next step, and query() goes on after
\* wg.Wait()
ReturnSpec ==
    /\ Spec
    /\ \A i \in 1 .. MaxTasks : WF_vars(TaskStep(i))
    /\ WF_vars(Collect \/ MergeFault)

----------------------------------------------------------------------------
(* Properties of the chunk scheduler *)

Running == {i \in Tasks : pc[i] = "running"}

\* C3: the frames handed to the merge are the chunks' frames in plan order,
\* whatever the order in which the chunk tasks ended.
C3_FramesInPlanOrder ==
    (response.kind = "frames" /\ Len(chunks) > 0) =>
        response.orderedFrames = [k \in 1 .. Len(chunks) |-> Frame(chunks[k])]

C3_Witness ==
    /\ response.kind = "frames"
    /\ Len(chunks) > 4
    /\ overtaken

C5_FirstErrorNoFrames ==
    (response.kind # "none" /\ \E i \in Tasks : results[i].err # NoErr) =>
        /\ response.kind = "error"
        /\ response.orderedFrames = <<>>
        /\ \E k \in Tasks :
              /\ results[k].err # NoErr
              /\ \A j \in 1 .. k - 1 : results[j].err = NoErr
              /\ response.err = results[k].err

C5_Witness ==
    /\ response.kind = "error"
    /\ overtaken
    /\ \E k, m \in Tasks :
          /\ k < m
          /\ results[k].err # NoErr
          /\ results[m].err # NoErr
          /\ results[m].err.cause # results[k].err.cause
          /\ \E j \in Tasks : ~results[j].frame.nil
          /\ response.err = results[k].err

\* C6 as stated: every error recorded for a chunk task embeds that chunk's
\* from/to bounds, whether it comes from the backend, a panic or cancellation.
C6_EveryErrorNamesItsChunk ==
    \A i \in Tasks :
        results[i].err # NoErr =>
            results[i].err.bounds =
                <<FormatMinute(chunks[i].From), FormatMinute(chunks[i].To)>>

Waiting == {i \in Tasks : pc[i] \in {"blocked", "ctxwake"}}

EndedOnCancel(i) ==
    /\ pc[i] = "done"
    /\ results[i] = [frame |-> NilFrame, err |-> CtxErr]
    /\ sentDb[i] = NoRequest

\* C7: once the context is cancelled no chunk task stays waiting for a slot,
\* even if no running chunk ever gives a slot back, and the next step of a
\* task that waited ends it with the cancellation error in its own slot and
\* without a backend request.
C7_BlockedTaskEndsOnCancel ==
    /\ (ctxDone /\ Waiting # {}) ~> (Waiting = {})
    /\ [][\A i \in Waiting : (ctxDone /\ pc'[i] # pc[i]) => EndedOnCancel(i)']_vars

\* the fifth task has ended on the cancellation while the four tasks that
\* hold the slots are still in their backend calls
C7_Witness ==
    /\ ctxDone
    /\ Cardinality(Running) = 4
    /\ \E i \in Tasks :
          /\ pc[i] = "done"
          /\ results[i] = [frame |-> NilFrame, err |-> CtxErr]
          /\ sentDb[i] = NoRequest
          /\ \A j \in Tasks \ {i} : pc[j] = "running"

\* C8: a query with a database override leaves the shared settings as they
\* were, and every backend request of a query without an override carries the
\* datasource's default database.
C8_OverrideLeavesSharedSettings ==
    /\ settings.Database = DefaultDatabase
    /\ qm.Database = "" =>
          /\ singleDb \in {NoRequest, DefaultDatabase}
          /\ \A i \in Tasks : sentDb[i] \in {NoRequest, DefaultDatabase}

C8_Witness ==
    /\ prevDatabase = OtherDatabase
    /\ qm.RefID = RefIDs[2]
    /\ qm.Database = ""
    /\ Len(chunks) > 1
    /\ \A i \in Tasks : sentDb[i] = DefaultDatabase

\* the slots whose content a step changes
SlotsWritten == {i \in Tasks : i <= Len(results') /\ results'[i] # results[i]}

\* the tasks a step ends
TasksEnded == {i \in Tasks : i <= Len(pc') /\ pc[i] # "done" /\ pc'[i] = "done"}

\* C36: while a split query runs, a step that changes a slot of results changes
\* the slot of the one task it ends and no other; so each slot is written once,
\* by its own task, while tasks are still unfinished, and the slots stay as
\* they are from the end of the last task on. The slot of a task that has
\* ended is not the zero value. A task whose executeChunk panics ends with
\* the panic as the error of its own slot, without a frame.
C36_SlotsWrittenOnceByOwner ==
    /\ [](\A i \in Tasks : pc[i] = "done" => results[i] # ZeroResult)
    /\ [][phase = "split" =>
            /\ Len(results') = Len(results)
            /\ SlotsWritten = TasksEnded
            /\ Cardinality(SlotsWritten) <= Cardinality({phase})
            /\ (\A i \in Tasks : pc[i] = "done") => results' = results
            /\ \A i \in TasksEnded :
                 (pc[i] = "running" /\ results'[i].err.cause = "panic") =>
                    /\ results'[i].frame.nil
                    /\ results'[i].err = ChunkError(chunks[i], "panic")]_vars
    /\ [][phase # "split" => (results' = results \/ phase = "idle")]_vars

\* a query has been answered whose third task panicked after later tasks had
\* ended, with frames in the other slots
C36_Witness ==
    /\ phase \in {"idle", "returned"}
    /\ response.kind = "error"
    /\ overtaken
    /\ Len(chunks) > 4
    /\ results[3].err.cause = "panic"
    /\ \A j \in Tasks \ {3} : ~results[j].frame.nil

\* C38 as stated: when every backend call returns, the semaphore holds as many
\* tokens as chunks are executing (a task that ends, also by a panic, gives
\* its token back or hands it to a queued task), and a split query, whatever
\* its number of chunks, eventually returns its response.
C38_SplitQueryReturns ==
    /\ [](phase = "split" => semaphore = Cardinality(Running))
    /\ phase = "split" ~> phase \in {"idle", "returned"}

\* C25: nothing is retried. Each chunk task issues at most one backend request,
\* and exactly one when it ended without the context being cancelled; a task
\* that ended, failed or not, has issued the one request it will ever issue;
\* a single-shot query issues exactly one request.
C25_NothingRetried ==
    /\ \A i \in Tasks :
        /\ calls[i] <= 1
        /\ (pc[i] = "done" /\ ~ctxDone) => calls[i] = 1
        /\ (pc[i] = "done" /\ results[i].err.cause \in {"backend", "panic"}) =>
                calls[i] = 1
    /\ phase = "single" => singleCalls = 1
    /\ singleCalls <= 1
    /\ singleCalls = 1 => Len(chunks) = 0

\* every task of a four chunk query has ended, the second one on a backend
\* error, and each has issued one request
C25_Witness ==
    /\ Len(chunks) = 4
    /\ \A i \in Tasks : pc[i] = "done" /\ calls[i] = 1
    /\ results[2].err.cause = "backend"
    /\ results[1].err = NoErr

\* C26 as stated: when QueryData is over, the response holds for every query
\* of the request an entry with frames or an error, whatever happened to the
\* other queries.
C26_EveryQueryAnswered ==
    phase \in {"returned", "panicked"} =>
        \A k \in 1 .. NumQueries : responses[RefIDs[k]] \in {"frames", "error"}

----------------------------------------------------------------------------
(* SplitSpec: splitTimeRange on every input of a bounded box *)

\* instants range over -SplitMaxT .. SplitMaxT ticks around the epoch
SplitMaxT == 9
\* chunk sizes range over SplitMaxChunk ticks down to zero and to a negative
\* size of more than a second
SplitMaxChunk == 6

SplitInit ==
    /\ sFrom \in -SplitMaxT .. SplitMaxT
    /\ sTo \in -SplitMaxT .. SplitMaxT
    /\ sChunkSize \in -(TicksPerSec + 1) .. SplitMaxChunk
    /\ sChunks = <<>>
    /\ sDone = FALSE
    /\ RequestInit /\ QueryIdle /\ PlanIdle /\ MacroIdle /\ MergeIdle /\ PrepareIdle /\ SizeIdle /\ JsonIdle /\ ArrowIdle /\ ExpandIdle /\ OptimizeIdle

CallSplitTimeRange ==
    /\ ~sDone
    /\ sChunks' = splitTimeRange(sFrom, sTo, sChunkSize)
    /\ sDone' = TRUE
    /\ UNCHANGED <<sFrom, sTo, sChunkSize>>
    /\ UNCHANGED <<planVars, macroVars, mergeVars, prepareVars, sizeVars, jsonVars, arrowVars, expandVars, optVars, reqVars, queryVars>>

SplitNext == CallSplitTimeRange

SplitSpec == SplitInit /\ [][SplitNext]_vars

WholeSeconds(d) == d % TicksPerSec = 0

\* C1: for to > from and a whole-second chunkSize > 0 the plan starts at from,
\* ends at to, and each chunk ends where the next one starts.
C1_ContiguousCover ==
    (sDone /\ sTo > sFrom /\ sChunkSize > 0 /\ WholeSeconds(sChunkSize)) =>
        /\ Len(sChunks) >= 1
        /\ sChunks[1].From = sFrom
        /\ sChunks[Len(sChunks)].To = sTo
        /\ \A i \in 1 .. Len(sChunks) - 1 : sChunks[i].To = sChunks[i + 1].From

C1_Witness ==
    /\ sDone /\ sTo > sFrom /\ sChunkSize > 0 /\ WholeSeconds(sChunkSize)
    /\ Len(sChunks) >= 3
    /\ sFrom % sChunkSize # 0
    /\ sTo % sChunkSize # 0

InternalBoundariesAligned ==
    \A i \in 1 .. Len(sChunks) - 1 : sChunks[i].To % sChunkSize = 0

C21_ShortRangeOneChunk ==
    (sDone /\ sChunkSize > 0 /\ sTo - sFrom < sChunkSize) =>
        sChunks = <<TimeRange(sFrom, sTo)>>

\* the smallest multiple of chunkSecs, in seconds from the epoch, that lies
\* strictly after the instant from
SmallestMultipleAfter(from, chunkSecs) ==
    LET after == {k * chunkSecs : k \in -(SplitMaxT + 1) .. SplitMaxT + 1}
        later == {m \in after : TimeUnix(m) > from}
    IN  CHOOSE m \in later : \A n \in later : m <= n

\* C22 as stated: when splitTimeRange splits (here for whole-second chunk
\* sizes), the first chunk ends at the smallest epoch multiple of chunkSize
\* strictly greater than from, for every from, also before the epoch; when
\* that boundary is not before to, the result is the single chunk [from, to).
C22_FirstBoundarySmallestMultiple ==
    (sDone /\ sChunkSize > 0 /\ WholeSeconds(sChunkSize)) =>
        LET boundary ==
                TimeUnix(SmallestMultipleAfter(sFrom, DurationSeconds(sChunkSize)))
        IN  IF boundary < sTo
            THEN sChunks[1] = TimeRange(sFrom, boundary)
            ELSE sChunks = <<TimeRange(sFrom, sTo)>>

\* C33: for every from and to, also to <= from, a zero or negative chunkSize
\* (a negative fraction of a second included) gives exactly one chunk, from
\* from to to.
C33_NoSplitWithoutChunkSize ==
    (sDone /\ sChunkSize <= 0) =>
        /\ Len(sChunks) = Len(<<sFrom>>)
        /\ sChunks[1].From = sFrom
        /\ sChunks[1].To = sTo

\* a range of several seconds and a negative chunkSize of whole seconds
C33_Witness ==
    /\ sDone
    /\ DurationSeconds(sChunkSize) < 0
    /\ sTo - sFrom > 2 * Second
    /\ Len(sChunks) = Len(<<sFrom>>)
    /\ sChunks[1].To = sTo

\* the quotient rounded up (b > 0, a >= 0)
CeilDiv(a, b) == (a + b - 1) \div b

\* C40: for to > from, from at or after the epoch and a whole-second
\* chunkSize > 0, every chunk is non-empty and at most chunkSize long, every
\* chunk but the first and the last is exactly chunkSize long, and there are
\* at most ceil((to - from) / chunkSize) + 1 chunks.
C40_ChunkLengths ==
    (sDone /\ sTo > sFrom /\ sFrom >= 0 /\ sChunkSize > 0
        /\ WholeSeconds(sChunkSize)) =>
        /\ \A i \in 1 .. Len(sChunks) :
                /\ sChunks[i].From < sChunks[i].To
                /\ sChunks[i].To - sChunks[i].From <= sChunkSize
        /\ \A i \in 2 .. Len(sChunks) - 1 :
                sChunks[i].To - sChunks[i].From = sChunkSize
        /\ Len(sChunks) <= CeilDiv(sTo - sFrom, sChunkSize) + 1

\* short first and last chunks around a full one: the count reaches the bound
C40_Witness ==
    /\ sDone /\ sTo > sFrom /\ sFrom >= 0 /\ sChunkSize > 0
    /\ WholeSeconds(sChunkSize)
    /\ Len(sChunks) >= 3
    /\ sChunks[1].To - sChunks[1].From < sChunkSize
    /\ sChunks[Len(sChunks)].To - sChunks[Len(sChunks)].From < sChunkSize
    /\ Len(sChunks) = CeilDiv(sTo - sFrom, sChunkSize) + 1

\* the query text of a chunk: a condition written with $__timeFilter(time)
ChunkFilter(chunk) ==
    ApplyMacrosWithSplit(TokenTimeFilterOpen \o <<"t", "i", "m", "e">> \o <<")">>,
                         chunk, TimeRange(sFrom, sTo))

\* the condition time >= 'a' AND time < 'b' for the whole seconds a and b
TimeCondition(a, b) ==
    <<"t", "i", "m", "e", " ", ">", "=", " ", "'">> \o FormatRFC3339(a * TicksPerSec) \o <<"'", " ", "A", "N", "D", " ", "t", "i", "m", "e", " ", "<", " ", "'">>
        \o FormatRFC3339(b * TicksPerSec) \o <<"'">>

\* a row of time t satisfies the condition of the text
Satisfies(t, text) ==
    \E a, b \in 0 .. SplitMaxT + 1 :
        /\ text = TimeCondition(a, b)
        /\ a * TicksPerSec <= t
        /\ t < b * TicksPerSec

\* the chunks of the plan whose query fetches a row of time t
Fetching(t) ==
    {i \in 1 .. Len(sChunks) : Satisfies(t, ChunkFilter(sChunks[i]))}

\* a plan of two chunks or more, of a range from the epoch on
SplitPlan ==
    sDone /\ sFrom >= 0 /\ sTo > sFrom /\ sChunkSize > 0 /\ Len(sChunks) >= 2

\* C39 as stated: in a split query written with $__timeFilter, a row of every
\* instant t with from <= t < to satisfies the expanded filter of exactly one
\* chunk of the plan, and a row of an instant outside the range satisfies the
\* filter of no chunk.
C39_FiltersPartitionRange ==
    SplitPlan =>
        \A t \in 0 .. SplitMaxT + TicksPerSec :
            IF sFrom <= t /\ t < sTo
            THEN Cardinality(Fetching(t)) = 1
            ELSE Fetching(t) = {}

\* the part of C39 that holds: when from and to are whole seconds the filters
\* partition the range, and for every range no row is fetched by two chunks
\* and the rows fetched are those of the range cut to whole seconds
C39_WholeSecondRange ==
    SplitPlan =>
        \A t \in 0 .. SplitMaxT + TicksPerSec :
            /\ Cardinality(Fetching(t)) <= 1
            /\ Fetching(t) # {} <=>
                    (Unix(sFrom) * TicksPerSec <= t /\ t < Unix(sTo) * TicksPerSec)
            /\ (WholeSeconds(sFrom) /\ WholeSeconds(sTo)) =>
                    (Fetching(t) # {} <=> (sFrom <= t /\ t < sTo))

----------------------------------------------------------------------------
(* SizeSpec: parseSplitDuration and the chunk plan of the size it returns *)

\* the split settings of the query editor, and two it does not offer
SizeSettings == {"", "auto", "off", "1h", "6h", "12h", "1d", "3d", "7d", "2h", "1H"}

\* the spans around each threshold of autoSplitDuration, a zero and a
\* negative span, and two spans between thresholds
SizeSpans ==
    {-Hour, 0, 3 * Hour - 1, 3 * Hour, 6 * Hour, 12 * Hour, 24 * Hour - 1,
     24 * Hour, 7 * 24 * Hour - 1, 7 * 24 * Hour, 30 * 24 * Hour - 1,
     30 * 24 * Hour, 31 * 24 * Hour}

SizeRanges == {TimeRange(QueryFrom, QueryFrom + span) : span \in SizeSpans}

\* every setting on the ranges of up to a day, the automatic settings on every
\* range: no plan is longer than 31 chunks
SizeInputs ==
    {in \in SizeSettings \X SizeRanges :
        in[1] \in {"", "auto"} \/ in[2].To - in[2].From <= 24 * Hour}

SizeInit ==
    /\ \E in \in SizeInputs :
        /\ dSetting = in[1]
        /\ dRange = in[2]
    /\ dParsed = NoSplit
    /\ dChunks = <<>>
    /\ dDone = FALSE
    /\ RequestInit /\ QueryIdle /\ SplitIdle /\ PlanIdle /\ MacroIdle /\ MergeIdle /\ PrepareIdle /\ JsonIdle /\ ArrowIdle /\ ExpandIdle /\ OptimizeIdle

\* query(): chunkSize, splitting := parseSplitDuration(...) and, for a query
\* that stays eligible, chunks := splitTimeRange(..., chunkSize)
CallParseSplitDuration ==
    /\ ~dDone
    /\ dParsed' = parseSplitDuration(dSetting, dRange)
    /\ dChunks' = LET parsed == parseSplitDuration(dSetting, dRange) IN
                  IF parsed.ok
                  THEN splitTimeRange(dRange.From, dRange.To, parsed.dur)
                  ELSE <<>>
    /\ dDone' = TRUE
    /\ UNCHANGED <<dSetting, dRange>>
    /\ UNCHANGED <<splitVars, planVars, macroVars, mergeVars, prepareVars, jsonVars, arrowVars, expandVars, optVars, reqVars, queryVars>>

SizeNext == CallParseSplitDuration

SizeSpec == SizeInit /\ [][SizeNext]_vars

\* the fixed settings with their durations in hours
FixedSettings ==
    {<<"1h", 1>>, <<"6h", 6>>, <<"12h", 12>>, <<"1d", 24>>, <<"3d", 72>>, <<"7d", 168>>}

\* the auto table: the chunk size in hours of each span, from the inclusive
\* lower threshold of its row; no row below three hours
AutoTable ==
    {<<3, 1>>, <<24, 6>>, <<7 * 24, 24>>, <<30 * 24, 7 * 24>>}

AutoRow(span) ==
    LET rows == {row \in AutoTable : span >= row[1] * Hour} IN
    IF rows = {} THEN <<>>
    ELSE <<CHOOSE row \in rows : \A other \in rows : other[1] <= row[1]>>

BucketSeconds ==
    {intervalToSeconds(e[1]) : e \in IntervalTable}
        \cup {intervalToSeconds(<<"2", "h">>)}

\* C24 as stated: for every chunk size parseSplitDuration returns and every
\* bucket width intervalToSeconds returns, every internal chunk boundary of
\* the plan is a multiple of the bucket width from the epoch.
C24_ChunkBoundariesOnBuckets ==
    dDone =>
        \A i \in 1 .. Len(dChunks) - 1 : \A S \in BucketSeconds :
            /\ dChunks[i].To = TimeUnix(Unix(dChunks[i].To))
            /\ Unix(dChunks[i].To) % S = 0

----------------------------------------------------------------------------
(* JsonSpec: JSONToDataFrame on small {columns, data} documents *)

\* documents have up to JsonMaxRows rows of up to JsonMaxCols cells
JsonMaxRows == 2

JsonMaxCols == 2

\* the cells: nil, a number, a plain text, a time text, a bool
JsonCells ==
    {JsonNull, JsonNumber(5), JsonString(<<"a">>),
     JsonString(<<"1", "9", "7", "0", "-", "0", "1", "-", "0", "1", "T", "0", "0", ":", "0", "0", ":", "0", "5", "Z">>), JsonBool(TRUE)}

\* the rows: arrays of cells, and a row that is no array
JsonRows ==
    {JsonOther} \cup
    UNION {{JsonArray(r) : r \in [1 .. n -> JsonCells]} : n \in 0 .. JsonMaxCols}

\* the values under "data": none, no array, arrays of rows
JsonDatas ==
    {JsonAbsent, JsonOther} \cup
    UNION {{JsonArray(d) : d \in [1 .. n -> JsonRows]} : n \in 0 .. JsonMaxRows}

\* the values under "columns": none, no array, no name, one name, two names
\* of which the first makes a time column, and a name that is no string
JsonColumns ==
    {JsonAbsent, JsonOther, JsonArray(<<>>),
     JsonArray(<<JsonString(<<"v">>)>>),
     JsonArray(<<JsonString(<<"t", "i", "m", "e">>), JsonString(<<"v">>)>>),
     JsonArray(<<JsonString(<<"v">>), JsonNumber(7)>>)}

JsonInit ==
    /\ jDoc \in [columns : JsonColumns, data : JsonDatas]
    /\ jOut = NoFrame
    /\ jDone = FALSE
    /\ RequestInit /\ QueryIdle /\ SplitIdle /\ PlanIdle /\ MacroIdle /\ MergeIdle /\ PrepareIdle /\ SizeIdle /\ ArrowIdle /\ ExpandIdle /\ OptimizeIdle

CallJSONToDataFrame ==
    /\ ~jDone
    /\ jOut' = JSONToDataFrame(jDoc)
    /\ jDone' = TRUE
    /\ UNCHANGED jDoc
    /\ UNCHANGED <<splitVars, planVars, macroVars, mergeVars, prepareVars, sizeVars, arrowVars, expandVars, optVars, reqVars, queryVars>>

JsonNext == CallJSONToDataFrame

JsonSpec == JsonInit /\ [][JsonNext]_vars

\* the document has its two keys, both arrays, and the names are strings
WellKeyed(doc) ==
    /\ doc.columns.k = "array"
    /\ doc.data.k = "array"
    /\ \A i \in 1 .. Len(doc.columns.items) : doc.columns.items[i].t = "string"

\* the first non-nil cell of column c of the rows, JsonNull when there is none
FirstCell(rows, c) ==
    LET filled == {r \in 1 .. Len(rows) :
                     /\ rows[r].k = "array"
                     /\ c <= Len(rows[r].items)
                     /\ rows[r].items[c] # JsonNull}
    IN  IF filled = {} THEN JsonNull ELSE rows[Min(filled)].items[c]

\* C27 as stated: JSONToDataFrame returns a frame or an error for every
\* document, whatever the cells after the first, the lengths of the rows and
\* the number of names; each column of the frame has the type inferred from
\* its first non-nil cell and every value of the column is of that type.
C27_JsonNeverFaults ==
    (jDone /\ WellKeyed(jDoc)) =>
        /\ jOut.kind \in {"frame", "error"}
        /\ jOut.kind = "frame" =>
            \A c \in 1 .. Len(jOut.fields) :
                LET type == jOut.fields[c].type IN
                /\ type = InferFieldType(jOut.fields[c].name,
                                         FirstCell(jDoc.data.items, c))
                /\ \A r \in 1 .. Len(jOut.fields[c].vals) :
                    jOut.fields[c].vals[r].t \in
                        IF type = "float64" THEN {"null", "number"}
                        ELSE IF type = "time" THEN {"null", "time", "zerotime"}
                        ELSE {"null", type}

----------------------------------------------------------------------------
(* ArrowSpec: the two Arrow decoders on small streams *)

\* streams have up to ArrowMaxRecords records of up to one row
ArrowMaxRecords == 2

\* the column types of the streams: typed ones, DURATION, and two that no
\* decoder has a typed field for
ArrowIds == {"FLOAT64", "STRING", "INT64", "DURATION", "DATE32", "DECIMAL128"}

ArrowColumn(type) == [name |-> <<"v">>, type |-> type]

\* schemas of one column, and of a FLOAT64 column followed by another
ArrowSchemas ==
    {<<ArrowColumn(type)>> : type \in ArrowIds}
        \cup {<<ArrowColumn("FLOAT64"), ArrowColumn(type)>> : type \in ArrowIds}

\* the records of a schema: no row, or one row of null and non-null slots
ArrowRecordsOf(schema) ==
    {[c \in 1 .. Len(schema) |-> <<>>]}
        \cup [1 .. Len(schema) -> {<<JsonNull>>, <<JsonNumber(5)>>}]

ArrowStreams ==
    UNION {{[schema |-> schema, records |-> records] :
                records \in UNION {[1 .. n -> ArrowRecordsOf(schema)] :
                                     n \in 0 .. ArrowMaxRecords}} :
           schema \in ArrowSchemas}

ArrowInit ==
    /\ \E stream \in ArrowStreams :
        /\ aSchema = stream.schema
        /\ aRecords = stream.records
    /\ aDecoder = ""
    /\ aOut = NoFrame
    /\ aDone = FALSE
    /\ RequestInit /\ QueryIdle /\ SplitIdle /\ PlanIdle /\ MacroIdle /\ MergeIdle /\ PrepareIdle /\ SizeIdle /\ JsonIdle /\ ExpandIdle /\ OptimizeIdle

\* QueryArrowFlightSQLStyle: frame, err := frameForRecords(reader)
CallFrameForRecords ==
    /\ ~aDone
    /\ aDecoder' = QueryPath
    /\ aOut' = frameForRecords(QueryPath, aSchema, aRecords)
    /\ aDone' = TRUE
    /\ UNCHANGED <<aSchema, aRecords>>
    /\ UNCHANGED <<splitVars, planVars, macroVars, mergeVars, prepareVars, sizeVars, jsonVars, expandVars, optVars, reqVars, queryVars>>

\* QueryArrow: frame, err := ArrowToDataFrame(arrowData)
CallArrowToDataFrame ==
    /\ ~aDone
    /\ aDecoder' = HealthPath
    /\ aOut' = frameForRecords(HealthPath, aSchema, aRecords)
    /\ aDone' = TRUE
    /\ UNCHANGED <<aSchema, aRecords>>
    /\ UNCHANGED <<splitVars, planVars, macroVars, mergeVars, prepareVars, sizeVars, jsonVars, expandVars, optVars, reqVars, queryVars>>

ArrowNext == CallFrameForRecords \/ CallArrowToDataFrame

ArrowSpec == ArrowInit /\ [][ArrowNext]_vars

\* the types of the supported set of the columnar decoder
SupportedArrowIds ==
    {"BOOL", "INT8", "INT16", "INT32", "INT64", "UINT8", "UINT16", "UINT32",
     "UINT64", "FLOAT32", "FLOAT64", "STRING", "TIMESTAMP"}

\* the slots of column c of all records, in stream order
RECURSIVE SlotsOf(_, _)
SlotsOf(records, c) ==
    IF records = <<>> THEN <<>>
    ELSE Head(records)[c] \o SlotsOf(Tail(records), c)

\* C28 as stated: in the query path a stream with a column of a type outside
\* the supported set decodes to a frame in which that column holds the string
\* representation of each value, nothing for a null; it is never an error.
C28_UnsupportedTypeAsString ==
    (aDone /\ aDecoder = QueryPath /\ aRecords # <<>>) =>
        /\ aOut.kind = "frame"
        /\ \A c \in 1 .. Len(aSchema) :
            aSchema[c].type \notin SupportedArrowIds =>
                /\ aOut.fields[c].type = "string"
                /\ Len(aOut.fields[c].vals) = Len(SlotsOf(aRecords, c))
                /\ \A r \in 1 .. Len(aOut.fields[c].vals) :
                    aOut.fields[c].vals[r] =
                        IF SlotsOf(aRecords, c)[r] = JsonNull THEN JsonNull
                        ELSE JsonString(Itoa(SlotsOf(aRecords, c)[r].n))

----------------------------------------------------------------------------
(* PlanSpec: the split decision and the chunk plan of query() on SQL texts *)

SqlSelect ==
    <<"S", "E", "L", "E", "C", "T", " ">>

\* select lists: a plain column, aggregate calls, DISTINCT, window functions,
\* a column whose name contains the letters of LIMIT, a time-bucketed count
SqlExprs ==
    {<<"v">>,
     <<"c", "o", "u", "n", "t", "(", "v", ")">>,
     <<"C", "O", "U", "N", "T", " ", "(", "v", ")">>,
     <<"M", "a", "x", "(", "v", ")">>,
     <<"D", "I", "S", "T", "I", "N", "C", "T", " ", "v">>,
     <<"d", "i", "s", "t", "i", "n", "c", "t", "\t", "v">>,
     <<"r", "a", "n", "k", "(", ")", " ", "O", "V", "E", "R", " ", "(", "O", "R", "D", "E", "R", " ", "B", "Y", " ", "v", ")">>,
     <<"r", "a", "n", "k", "(", ")", "\t", "o", "v", "e", "r", " ", "(", "O", "R", "D", "E", "R", " ", "B", "Y", " ", "v", ")">>,
     <<"l", "i", "m", "i", "t", "e", "d">>,
     <<"$", "_", "_", "t", "i", "m", "e", "G", "r", "o", "u", "p", "(", "t", "i", "m", "e", ",", " ", "'", "1", "h", "'", ")", ",", " ", "c", "o", "u", "n", "t", "(", "v", ")">>}

\* with the time filter macro, with the two time bound macros, with
\* $__timeTo() alone, and with no macro
SqlFroms ==
    {<<" ", "F", "R", "O", "M", " ", "t", " ", "W", "H", "E", "R", "E", " ", "$", "_", "_", "t", "i", "m", "e", "F", "i", "l", "t", "e", "r", "(", "t", "i", "m", "e", ")">>,
     <<" ", "F", "R", "O", "M", " ", "t", " ", "W", "H", "E", "R", "E", " ", "t", "i", "m", "e", " ", ">", "=", " ", "$", "_", "_", "t", "i", "m", "e", "F", "r", "o", "m", "(", ")", " ", "A", "N", "D", " ", "t", "i", "m", "e", " ", "<", " ", "$", "_", "_", "t", "i", "m", "e", "T", "o", "(", ")">>,
     <<" ", "F", "R", "O", "M", " ", "t", " ", "W", "H", "E", "R", "E", " ", "t", "i", "m", "e", " ", "<", " ", "$", "_", "_", "t", "i", "m", "e", "T", "o", "(", ")">>,
     <<" ", "F", "R", "O", "M", " ", "t">>}

\* clauses after the WHERE: none, GROUP BY and LIMIT in several cases and
\* spacings, a second statement joined by UNION in several cases and spacings
SqlTails ==
    {<<>>,
     <<" ", "G", "R", "O", "U", "P", " ", "B", "Y", " ", "v">>,
     <<" ", "g", "r", "o", "u", "p", " ", "b", "y", " ", "v">>,
     <<" ", "G", "R", "O", "U", "P", " ", " ", "B", "Y", " ", "v">>,
     <<" ", "G", "R", "O", "U", "P", "\n", "B", "Y", " ", "v">>,
     <<" ", "L", "I", "M", "I", "T", " ", "1", "0">>,
     <<" ", "l", "i", "m", "i", "t", " ", "1", "0">>,
     <<" ", "L", "i", "m", "i", "t", " ", "1", "0">>,
     <<"\n", "L", "I", "M", "I", "T", " ", "1", "0">>,
     <<" ", "L", "I", "M", "I", "T", "\t", "1", "0">>,
     <<" ", "L", "I", "M", "I", "T">>,
     <<"\t", "l", "i", "m", "i", "t", "\n", "1", "0">>,
     <<" ", "U", "N", "I", "O", "N", " ", "A", "L", "L", " ", "S", "E", "L", "E", "C", "T", " ", "v", " ", "F", "R", "O", "M", " ", "u">>,
     <<" ", "u", "n", "i", "o", "n", " ", "s", "e", "l", "e", "c", "t", " ", "v", " ", "f", "r", "o", "m", " ", "u">>,
     <<"\n", "U", "N", "I", "O", "N", "\n", "S", "E", "L", "E", "C", "T", " ", "v", " ", "F", "R", "O", "M", " ", "u">>,
     <<" ", "U", "N", "I", "O", "N", "\t", "A", "L", "L", " ", "S", "E", "L", "E", "C", "T", " ", "v", " ", "F", "R", "O", "M", " ", "u">>}

PlanSqls == {SqlSelect \o e \o f \o t : e \in SqlExprs, f \in SqlFroms, t \in SqlTails}

PlanSplitDurations == {"", "off", "1h", "6h", "2h"}

\* query ranges of 2 and 12 hours
PlanRanges == {TimeRange(QueryFrom, QueryFrom + h * Hour) : h \in {2, 12}}

PlanInit ==
    /\ pSql \in PlanSqls
    /\ pSplitDuration \in PlanSplitDurations
    /\ pRange \in PlanRanges
    /\ pPlan = [splitting |-> FALSE, chunks |-> <<>>]
    /\ pDone = FALSE
    /\ RequestInit /\ QueryIdle /\ SplitIdle /\ MacroIdle /\ MergeIdle /\ PrepareIdle /\ SizeIdle /\ JsonIdle /\ ArrowIdle /\ ExpandIdle /\ OptimizeIdle

CallPlanQuery ==
    /\ ~pDone
    /\ pPlan' = PlanQuery(pSql, pSplitDuration, pRange)
    /\ pDone' = TRUE
    /\ UNCHANGED <<pSql, pSplitDuration, pRange>>
    /\ UNCHANGED <<splitVars, macroVars, mergeVars, prepareVars, sizeVars, jsonVars, arrowVars, expandVars, optVars, reqVars, queryVars>>

PlanNext == CallPlanQuery

PlanSpec == PlanInit /\ [][PlanNext]_vars

\* the number of backend executions of the planned query
Executions(plan) == IF plan.splitting THEN Len(plan.chunks) ELSE 1

Blank(c) == c \in {" ", "\t", "\n"}

WordLimit ==
    <<"L", "I", "M", "I", "T">>

WordOverParen ==
    <<"O", "V", "E", "R", "(">>

\* LIMIT occurs in sql in any letter case, with a blank or an end of the string
\* on either side
HasStandaloneLimit(sql) ==
    \E i \in 1 .. Len(sql) - 4 :
        /\ ToUpper(SubSeq(sql, i, i + 4)) = WordLimit
        /\ (i = 1 \/ Blank(sql[i - 1]))
        /\ (i + 4 = Len(sql) \/ Blank(sql[i + 5]))

RECURSIVE SqueezeFrom(_, _)
SqueezeFrom(u, i) ==
    IF i > Len(u) THEN <<>>
    ELSE (IF u[i] = " " /\ i < Len(u) /\ u[i + 1] \in {" ", "("}
          THEN <<>>
          ELSE <<u[i]>>) \o SqueezeFrom(u, i + 1)

\* sql in upper case, every run of blanks one space, no blank before "("
Squeeze(sql) ==
    SqueezeFrom([i \in 1 .. Len(sql) |->
                    IF Blank(sql[i]) THEN " " ELSE ToUpperChar(sql[i])], 1)

\* sql has GROUP BY, DISTINCT, a call of a catalogue function or an OVER
\* clause, in any letter case and spacing
PerformsAggregation(sql) ==
    LET n == Squeeze(sql) IN
    \/ Contains(n, KwGroupBy)
    \/ Contains(n, KwDistinct)
    \/ \E fn \in AggregateFunctions : Contains(n, fn)
    \/ Contains(n, WordOverParen)

\* C9 as stated: containsLIMIT is true exactly when LIMIT occurs as a
\* standalone keyword, in any letter case and whatever delimits it, and a
\* query whose SQL has a LIMIT clause is never executed in more than one chunk.
C9_LimitDetectedNeverSplit ==
    pDone =>
        /\ containsLIMIT(pSql) <=> HasStandaloneLimit(pSql)
        /\ HasStandaloneLimit(pSql) => Executions(pPlan) <= 1

\* C10 as stated: a query whose SQL performs aggregation, in any letter case
\* and spacing, and has no $__timeGroup macro is never executed in more than
\* one chunk.
C10_AggregationNeverSplit ==
    (pDone /\ PerformsAggregation(pSql) /\ ~Contains(pSql, MacroTimeGroup)) =>
        Executions(pPlan) <= 1

\* the SQL references none of $__timeFilter, $__timeFrom, $__timeTo
NoTimeMacro(sql) ==
    /\ ~Contains(sql, MacroTimeFilter)
    /\ ~Contains(sql, MacroTimeFrom)
    /\ ~Contains(sql, MacroTimeTo)

\* C11: a query whose SQL references none of the time filter and time bound
\* macros is executed exactly once, never in chunks.
C11_NoTimeMacroNeverSplit ==
    (pDone /\ NoTimeMacro(pSql)) => Executions(pPlan) = 1

\* a plain query without a time macro over 12 hours with a one hour split: only
\* the missing macro keeps it from being split into 13 chunks
C11_Witness ==
    /\ pDone
    /\ NoTimeMacro(pSql)
    /\ pSplitDuration = "1h"
    /\ Len(splitTimeRange(pRange.From, pRange.To, Hour)) > 1
    /\ querySplittingAnySql(pSql, pSplitDuration, pRange).splitting
    /\ ~pPlan.splitting

WordUnion ==
    <<"U", "N", "I", "O", "N">>

\* UNION occurs in sql in any letter case, with a blank or an end of the string
\* on either side
HasStandaloneUnion(sql) ==
    \E i \in 1 .. Len(sql) - 4 :
        /\ ToUpper(SubSeq(sql, i, i + 4)) = WordUnion
        /\ (i = 1 \/ Blank(sql[i - 1]))
        /\ (i + 4 = Len(sql) \/ Blank(sql[i + 5]))

\* C34 as stated: a query whose SQL contains UNION as a keyword, in any letter
\* case and whatever white space delimits it, is never executed in more than
\* one chunk, whatever split duration is configured.
C34_UnionNeverSplit ==
    (pDone /\ HasStandaloneUnion(pSql)) => Executions(pPlan) <= 1

----------------------------------------------------------------------------
(* MacroSpec: the macro expansion of SQL templates *)

\* A template is a sequence of segments: plain text, one of the five macros
\* with its argument texts, or a macro with one argument only.
Text(t) == [k |-> "text", a |-> t, b |-> <<>>]

Filter(column) == [k |-> "filter", a |-> column, b |-> <<>>]

MFrom == [k |-> "from", a |-> <<>>, b |-> <<>>]

MTo == [k |-> "to", a |-> <<>>, b |-> <<>>]

MInterval == [k |-> "interval", a |-> <<>>, b |-> <<>>]

Group(column, interval) == [k |-> "group", a |-> column, b |-> interval]

Group1(column) == [k |-> "group1", a |-> column, b |-> <<>>]

\* the text of a segment as the user writes it
SegText(g) ==
    CASE g.k = "text" -> g.a
      [] g.k = "filter" -> TokenTimeFilterOpen \o g.a \o <<")">>
      [] g.k = "from" -> TokenTimeFromCall
      [] g.k = "to" -> TokenTimeToCall
      [] g.k = "interval" -> TokenInterval
      [] g.k = "group" -> TokenTimeGroupOpen \o g.a \o <<",">> \o g.b \o <<")">>
      [] g.k = "group1" -> TokenTimeGroupOpen \o g.a \o <<")">>

RECURSIVE SqlOf(_)
SqlOf(segs) ==
    IF segs = <<>> THEN <<>> ELSE SegText(Head(segs)) \o SqlOf(Tail(segs))

\* select lists: a column; $__timeGroup with a short and a long interval, with
\* $__interval, with an unknown interval, with one argument, with a call as its
\* column, with an unclosed $__timeFrom( as its column; $__timeGroup unclosed
MacroSelects ==
    {<<Text(<<"v">>)>>,
     <<Group(<<"t", "i", "m", "e">>, <<" ", "'", "1", "h", "'">>), Text(<<" ", "A", "S", " ", "t", "i", "m", "e", ",", " ", "v">>)>>,
     <<Group(<<" ", "t", "i", "m", "e", " ">>, <<" ", "'", "1", "0", " ", "m", "i", "n", "u", "t", "e", "s", "'", " ">>)>>,
     <<Group(<<"t", "i", "m", "e">>, <<" ", "$", "_", "_", "i", "n", "t", "e", "r", "v", "a", "l">>)>>,
     <<Group(<<"t", "i", "m", "e">>, <<" ", "'", "2", " ", "w", "e", "e", "k", "s", "'">>)>>,
     <<Group1(<<"t", "i", "m", "e">>), Text(<<",", " ">>), Group(<<"t", "i", "m", "e">>, <<"'", "1", "h", "'">>)>>,
     <<Group(<<"t", "o", "_", "t", "i", "m", "e", "s", "t", "a", "m", "p", "(", "t", "s", ")">>, <<" ", "'", "1", "d", "'">>)>>,
     <<Group(<<"$", "_", "_", "t", "i", "m", "e", "F", "r", "o", "m", "(">>, <<" ", "'", "1", "h", "'">>)>>,
     <<Text(<<"$", "_", "_", "t", "i", "m", "e", "G", "r", "o", "u", "p", "(", "t", "i", "m", "e", ",", " ", "'", "1", "h", "'">>)>>}

\* conditions: $__timeFilter with a column, a padded column, no column, a call
\* as its column; the two bound macros; no macro; $__timeFilter unclosed;
\* $__timeFrom without its parentheses
MacroWheres ==
    {<<Filter(<<"t", "i", "m", "e">>)>>,
     <<Filter(<<" ", "t", "s", "\t">>), Text(<<" ", "A", "N", "D", " ", "v", " ", ">", " ", "0">>)>>,
     <<Filter(<<>>)>>,
     <<Filter(<<"t", "o", "_", "t", "i", "m", "e", "s", "t", "a", "m", "p", "(", "t", "s", ")">>)>>,
     <<Text(<<"t", "i", "m", "e", " ", ">", "=", " ">>), MFrom, Text(<<" ", "A", "N", "D", " ", "t", "i", "m", "e", " ", "<", " ">>), MTo>>,
     <<Text(<<"v", " ", ">", " ", "0">>)>>,
     <<Text(<<"$", "_", "_", "t", "i", "m", "e", "F", "i", "l", "t", "e", "r", "(", "t", "i", "m", "e">>)>>,
     <<Text(<<"t", "i", "m", "e", " ", ">", "=", " ", "$", "_", "_", "t", "i", "m", "e", "F", "r", "o", "m">>)>>}

MacroTails ==
    {<<>>,
     <<Text(<<" ", "G", "R", "O", "U", "P", " ", "B", "Y", " ", "1", " ", "-", "-", " ", "e", "v", "e", "r", "y", " ">>), MInterval>>,
     <<Text(<<" ", "A", "N", "D", " ", "s", "t", "e", "p", " ", "=", " ", "'">>), MInterval, Text(<<"'", " ", "A", "N", "D", " ", "x", " ", "=", " ", "'">>), MInterval, Text(<<"'">>)>>}

PlainSelect == <<Text(<<"v">>)>>

PlainWhere == <<Filter(<<"t", "i", "m", "e">>)>>

\* the templates: every select list, every condition and every tail, each
\* with plain others, and every condition with every tail
MacroTemplates ==
    {<<Text(<<"S", "E", "L", "E", "C", "T", " ">>)>> \o sel \o <<Text(<<" ", "F", "R", "O", "M", " ", "t", " ", "W", "H", "E", "R", "E", " ">>)>> \o whr \o tail :
        <<sel, whr, tail>> \in
            (MacroSelects \X {PlainWhere} \X MacroTails)
                \cup ({PlainSelect} \X MacroWheres \X MacroTails)}

\* ranges of 2 hours, 12 hours from a half second, 30 hours and 8 days
MacroRanges ==
    {TimeRange(QueryFrom, QueryFrom + 2 * Hour),
     TimeRange(QueryFrom + 1, QueryFrom + 12 * Hour),
     TimeRange(QueryFrom, QueryFrom + 30 * Hour),
     TimeRange(QueryFrom, QueryFrom + 8 * 24 * Hour)}

MacroSplitDurations == {"", "6h"}

MacroInit ==
    /\ mSegs \in MacroTemplates
    /\ mOriginal \in MacroRanges
    /\ mSplitDuration \in MacroSplitDurations
    /\ mChunk = mOriginal
    /\ mMode = "none"
    /\ mOut = <<>>
    /\ mAgain = <<>>
    /\ RequestInit /\ QueryIdle /\ SplitIdle /\ PlanIdle /\ MergeIdle /\ PrepareIdle /\ SizeIdle /\ JsonIdle /\ ArrowIdle /\ ExpandIdle /\ OptimizeIdle

mSql == SqlOf(mSegs)

\* querySingle: the SQL expanded with the query's range
ExpandSingle ==
    /\ mMode = "none"
    /\ mOut' = ApplyMacros(mSql, mOriginal)
    /\ mMode' = "single"
    /\ UNCHANGED <<mSegs, mSplitDuration, mOriginal, mChunk, mAgain>>
    /\ UNCHANGED <<splitVars, planVars, mergeVars, prepareVars, sizeVars, jsonVars, arrowVars, expandVars, optVars, reqVars, queryVars>>

\* executeChunk: the SQL expanded for one chunk of the plan of the range
ExpandChunk ==
    /\ mMode = "none"
    /\ LET parsed == parseSplitDuration(mSplitDuration, mOriginal) IN
        /\ parsed.ok
        /\ LET plan == splitTimeRange(mOriginal.From, mOriginal.To, parsed.dur) IN
            \E i \in 1 .. Len(plan) :
                /\ mChunk' = plan[i]
                /\ mOut' = ApplyMacrosWithSplit(mSql, plan[i], mOriginal)
    /\ mMode' = "split"
    /\ UNCHANGED <<mSegs, mSplitDuration, mOriginal, mAgain>>
    /\ UNCHANGED <<splitVars, planVars, mergeVars, prepareVars, sizeVars, jsonVars, arrowVars, expandVars, optVars, reqVars, queryVars>>

\* ApplyMacros applied to the SQL it returned
ExpandAgain ==
    /\ mMode = "single"
    /\ mAgain' = ApplyMacros(mOut, mOriginal)
    /\ mMode' = "again"
    /\ UNCHANGED <<mSegs, mSplitDuration, mOriginal, mChunk, mOut>>
    /\ UNCHANGED <<splitVars, planVars, mergeVars, prepareVars, sizeVars, jsonVars, arrowVars, expandVars, optVars, reqVars, queryVars>>

MacroNext == ExpandSingle \/ ExpandChunk \/ ExpandAgain

MacroSpec == MacroInit /\ [][MacroNext]_vars

\* the range whose bounds the expansion is to use
ExecutedRange == IF mMode = "split" THEN mChunk ELSE mOriginal

\* the column a $__timeFilter argument names: the argument without the white
\* space around it, and time when nothing is left
ColumnOf(argument) ==
    IF TrimSpace(argument) = <<>> THEN DefaultTimeColumn ELSE TrimSpace(argument)

\* the interval text for a range of the given duration
IntervalFor(tr) ==
    LET hours == tr.To - tr.From IN
    CASE hours > 168 * Hour -> <<"1", " ", "h", "o", "u", "r">>
      [] hours > 24 * Hour /\ hours <= 168 * Hour -> <<"1", "0", " ", "m", "i", "n", "u", "t", "e", "s">>
      [] hours > 6 * Hour /\ hours <= 24 * Hour -> <<"1", " ", "m", "i", "n", "u", "t", "e">>
      [] hours <= 6 * Hour -> <<"1", "0", " ", "s", "e", "c", "o", "n", "d", "s">>

\* what a segment is to become: bounds is the range being executed, sizing the
\* range that chooses the interval
ExpectedSeg(g, bounds, sizing) ==
    CASE g.k = "text" -> g.a
      [] g.k = "filter" ->
            ColumnOf(g.a) \o <<" ", ">", "=", " ", "'">> \o FormatRFC3339(bounds.From)
                \o <<"'", " ", "A", "N", "D", " ">> \o ColumnOf(g.a) \o <<" ", "<", " ", "'">>
                \o FormatRFC3339(bounds.To) \o <<"'">>
      [] g.k = "from" -> <<"'">> \o FormatRFC3339(bounds.From) \o <<"'">>
      [] g.k = "to" -> <<"'">> \o FormatRFC3339(bounds.To) \o <<"'">>
      [] g.k = "interval" -> IntervalFor(sizing)

RECURSIVE ExpectedSql(_, _, _)
ExpectedSql(segs, bounds, sizing) ==
    IF segs = <<>> THEN <<>>
    ELSE ExpectedSeg(Head(segs), bounds, sizing)
            \o ExpectedSql(Tail(segs), bounds, sizing)

\* a text segment that holds no macro
PlainText(g) == g.k = "text" /\ \A i \in 1 .. Len(g.a) : g.a[i] # "$"

HasParenthesis(t) == \E i \in 1 .. Len(t) : t[i] \in {"(", ")"}

Expanded == mMode \in {"single", "split", "again"}

\* C12 as stated: in SQL made of text, $__timeFilter(<column>), $__timeFrom()
\* and $__timeTo(), for any column text, the filter becomes
\* <column> >= '<from>' AND <column> < '<to>' and the bound macros become the
\* quoted bounds, with the chunk's bounds in split execution and the query's
\* bounds in single-shot execution.
C12_TimeMacrosUseExecutedRange ==
    (/\ Expanded
     /\ \A i \in 1 .. Len(mSegs) :
            PlainText(mSegs[i]) \/ mSegs[i].k \in {"filter", "from", "to"}) =>
        mOut = ExpectedSql(mSegs, ExecutedRange, ExecutedRange)

\* C13: in split execution every $__interval becomes the interval text chosen
\* by the duration of the original range, whatever the chunk's duration is
\* (the SQL is text, $__interval and time macros with plain columns).
C13_IntervalFromOriginalRange ==
    (/\ mMode = "split"
     /\ \E i \in 1 .. Len(mSegs) : mSegs[i].k = "interval"
     /\ \A i \in 1 .. Len(mSegs) :
            \/ PlainText(mSegs[i])
            \/ mSegs[i].k \in {"from", "to", "interval"}
            \/ mSegs[i].k = "filter" /\ ~HasParenthesis(mSegs[i].a)) =>
        mOut = ExpectedSql(mSegs, mChunk, mOriginal)

\* a chunk of one day of a range of eight days: the chunk alone would get
\* "1 minute", the range gets "1 hour"
C13_Witness ==
    /\ mMode = "split"
    /\ \E i \in 1 .. Len(mSegs) : mSegs[i].k = "interval"
    /\ \A i \in 1 .. Len(mSegs) :
            PlainText(mSegs[i]) \/ mSegs[i].k \in {"from", "to", "interval"}
    /\ IntervalFor(mChunk) # IntervalFor(mOriginal)
    /\ Contains(mOut, IntervalFor(mOriginal))
    /\ ~Contains(mOut, IntervalFor(mChunk))

\* one of the five macro names occurs in the text
HasMacroToken(t) ==
    \/ Contains(t, MacroTimeFilter)
    \/ Contains(t, MacroTimeFrom)
    \/ Contains(t, MacroTimeTo)
    \/ Contains(t, TokenInterval)
    \/ Contains(t, MacroTimeGroup)

\* C14 as stated: ApplyMacros applied to its own output returns that output,
\* and SQL without a macro token is returned as it is.
C14_ExpansionIdempotent ==
    /\ mMode = "again" => mAgain = mOut
    /\ (mMode = "single" /\ ~HasMacroToken(mSql)) => mOut = mSql

\* C15 as stated: the SQL that ApplyMacros and ApplyMacrosWithSplit return
\* holds none of the five macro names.
C15_NoMacroTokenLeft ==
    Expanded => ~HasMacroToken(mOut)

----------------------------------------------------------------------------
(* ExpandSpec: expandTimeFilter, expandTimeGroup and ApplyMacros, each
   applied to one template *)

ExpandRange == TimeRange(QueryFrom, QueryFrom + 2 * Hour)

\* the ways an interval is written as the second argument: single-quoted,
\* double-quoted, bare with spaces around it, and with spaces inside the quotes
Written(text) ==
    {<<" ", "'">> \o text \o <<"'">>,
     <<"\"">> \o text \o <<"\"">>,
     <<" ", " ">> \o text \o <<" ">>,
     <<" ", "'", " ">> \o text \o <<" ", "'", " ">>}

\* interval texts that intervalToSeconds does not know
UnknownIntervals ==
    {<<"2", " ", "w", "e", "e", "k", "s">>, <<"1", "H">>, <<"9", "0", "s">>, <<"1", " ", "h", "o", "u", "r", "s">>, <<"2", "h">>, <<"h", "o", "u", "r">>}

GroupSelect(column, interval) ==
    <<Text(<<"S", "E", "L", "E", "C", "T", " ">>), Group(column, interval), Text(<<" ", "A", "S", " ", "t", "i", "m", "e", " ", "F", "R", "O", "M", " ", "t">>)>>

\* one $__timeGroup with every known and some unknown intervals in every
\* writing; two of them; one with a call as its column; one-argument and
\* unclosed ones before and after a well-formed one
GroupTemplates ==
    UNION {{GroupSelect(<<"t", "i", "m", "e">>, w) : w \in Written(e[1])} : e \in IntervalTable}
        \cup UNION {{GroupSelect(<<" ", "c", "r", "e", "a", "t", "e", "d", "_", "a", "t", " ">>, w) : w \in Written(u)} :
                      u \in UnknownIntervals}
        \cup {<<Text(<<"S", "E", "L", "E", "C", "T", " ">>), Group(<<"t", "i", "m", "e">>, <<" ", "'", "1", "h", "'">>), Text(<<",", " ">>),
                Group(<<"c", "r", "e", "a", "t", "e", "d", "_", "a", "t">>, <<" ", "'", "1", "d", "'">>), Text(<<" ", "F", "R", "O", "M", " ", "t">>)>>,
              GroupSelect(<<"t", "o", "_", "t", "i", "m", "e", "s", "t", "a", "m", "p", "(", "t", "s", ")">>, <<" ", "'", "1", "d", "'">>),
              <<Text(<<"S", "E", "L", "E", "C", "T", " ">>), Group1(<<"t", "i", "m", "e">>), Text(<<" ", "F", "R", "O", "M", " ", "t">>)>>,
              <<Text(<<"S", "E", "L", "E", "C", "T", " ">>), Group1(<<"t", "i", "m", "e">>), Text(<<",", " ">>),
                Group(<<"t", "s">>, <<" ", "'", "1", "m", "'">>), Text(<<" ", "F", "R", "O", "M", " ", "t">>)>>,
              <<Text(<<"S", "E", "L", "E", "C", "T", " ">>), Group(<<"t", "s">>, <<" ", "'", "1", "m", "'">>), Text(<<",", " ">>),
                Group1(<<"t", "i", "m", "e">>), Text(<<" ", "F", "R", "O", "M", " ", "t">>)>>,
              <<Text(<<"S", "E", "L", "E", "C", "T", " ">>), Group(<<"t", "i", "m", "e">>, <<" ", "'", "1", "h", "'">>),
                Text(<<" ", "F", "R", "O", "M", " ", "t", " ", "G", "R", "O", "U", "P", " ", "B", "Y", " ">>),
                Text(TokenTimeGroupOpen \o <<"t", "i", "m", "e", ",", " ", "'", "1", "h", "'">>)>>,
              <<Text(<<"S", "E", "L", "E", "C", "T", " ">>), Text(TokenTimeGroupOpen \o <<"t", "i", "m", "e">>)>>}

FilterSelect(whr) ==
    <<Text(<<"S", "E", "L", "E", "C", "T", " ", "v", " ", "F", "R", "O", "M", " ", "t", " ", "W", "H", "E", "R", "E", " ">>)>> \o whr

\* $__timeFilter with no argument, with spaces only, with a column, twice,
\* unclosed alone and after a well-formed one, and with $__timeGroup of two
\* arguments and of one
FilterTemplates ==
    {FilterSelect(<<Filter(<<>>)>>),
     FilterSelect(<<Filter(<<" ", " ">>), Text(<<" ", "A", "N", "D", " ", "v", " ", ">", " ", "0">>)>>),
     FilterSelect(<<Filter(<<"t", "i", "m", "e">>)>>),
     FilterSelect(<<Filter(<<" ", "t", "s", " ">>), Text(<<" ", "O", "R", " ">>), Filter(<<>>)>>),
     FilterSelect(<<Text(TokenTimeFilterOpen \o <<"t", "i", "m", "e">>)>>),
     FilterSelect(<<Text(TokenTimeFilterOpen)>>),
     FilterSelect(<<Filter(<<"t", "i", "m", "e">>), Text(<<" ", "A", "N", "D", " ">>),
                    Text(TokenTimeFilterOpen \o <<"t", "s", " ", "A", "N", "D", " ", "v", " ", ">", " ", "0">>)>>),
     <<Text(<<"S", "E", "L", "E", "C", "T", " ">>), Group(<<"t", "i", "m", "e">>, <<" ", "'", "5", "m", "'">>), Text(<<" ", "F", "R", "O", "M", " ", "t", " ", "W", "H", "E", "R", "E", " ">>),
       Filter(<<>>)>>,
     <<Text(<<"S", "E", "L", "E", "C", "T", " ">>), Group1(<<"t", "i", "m", "e">>), Text(<<" ", "F", "R", "O", "M", " ", "t", " ", "W", "H", "E", "R", "E", " ">>),
       Filter(<<>>), Text(<<" ", "A", "N", "D", " ">>), Text(TokenTimeFilterOpen \o <<"t", "s">>)>>,
     <<Text(<<"S", "E", "L", "E", "C", "T", " ", "v", " ", "F", "R", "O", "M", " ", "t">>)>>}

ExpandTemplates == GroupTemplates \cup FilterTemplates

ExpandInit ==
    /\ eSegs \in ExpandTemplates
    /\ eFn = "idle"
    /\ eOut = <<>>
    /\ RequestInit /\ QueryIdle /\ SplitIdle /\ PlanIdle /\ MacroIdle /\ MergeIdle /\ PrepareIdle /\ SizeIdle /\ JsonIdle /\ ArrowIdle /\ OptimizeIdle

\* sql = expandTimeFilter(sql, timeRange.From, timeRange.To)
CallExpandTimeFilter ==
    /\ eFn = "idle"
    /\ eFn' = "expandTimeFilter"
    /\ eOut' = expandTimeFilter(SqlOf(eSegs), ExpandRange.From, ExpandRange.To)
    /\ UNCHANGED eSegs
    /\ UNCHANGED <<splitVars, planVars, macroVars, mergeVars, prepareVars, sizeVars, jsonVars, arrowVars, optVars, reqVars, queryVars>>

\* sql = expandTimeGroup(sql)
CallExpandTimeGroup ==
    /\ eFn = "idle"
    /\ eFn' = "expandTimeGroup"
    /\ eOut' = expandTimeGroup(SqlOf(eSegs))
    /\ UNCHANGED eSegs
    /\ UNCHANGED <<splitVars, planVars, macroVars, mergeVars, prepareVars, sizeVars, jsonVars, arrowVars, optVars, reqVars, queryVars>>

\* the whole of ApplyMacros
CallApplyMacros ==
    /\ eFn = "idle"
    /\ eFn' = "ApplyMacros"
    /\ eOut' = ApplyMacros(SqlOf(eSegs), ExpandRange)
    /\ UNCHANGED eSegs
    /\ UNCHANGED <<splitVars, planVars, macroVars, mergeVars, prepareVars, sizeVars, jsonVars, arrowVars, optVars, reqVars, queryVars>>

ExpandNext == CallExpandTimeFilter \/ CallExpandTimeGroup \/ CallApplyMacros

ExpandSpec == ExpandInit /\ [][ExpandNext]_vars

\* the fixed table of intervals as the documentation gives it: counts of
\* seconds, minutes, hours and days, each with a short and a long form
UnitTable ==
    {[short |-> <<"s">>, long |-> <<"s", "e", "c", "o", "n", "d">>, secs |-> 1, counts |-> {1, 5, 10, 30}],
     [short |-> <<"m">>, long |-> <<"m", "i", "n", "u", "t", "e">>, secs |-> 60, counts |-> {1, 5, 10, 15, 30}],
     [short |-> <<"h">>, long |-> <<"h", "o", "u", "r">>, secs |-> 60 * 60, counts |-> {1, 6, 12}],
     [short |-> <<"d">>, long |-> <<"d", "a", "y">>, secs |-> 24 * 60 * 60, counts |-> {1}]}

ShortForm(u, n) == Itoa(n) \o u.short

LongForm(u, n) == Itoa(n) \o <<" ">> \o u.long \o (IF n = 1 THEN <<>> ELSE <<"s">>)

\* S of an interval as written: quotes and the spaces around it are ignored,
\* 3600 for a text that is not in the table
SecondsOf(written) ==
    LET text == TrimSpace(TrimQuotes(TrimSpace(written)))
        hits == UNION {{u.secs * n : n \in {c \in u.counts :
                                              text \in {ShortForm(u, c), LongForm(u, c)}}} :
                       u \in UnitTable}
    IN  IF hits = {} THEN 60 * 60 ELSE CHOOSE s \in hits : TRUE

BucketExpression(column, interval) ==
    <<"t", "o", "_", "t", "i", "m", "e", "s", "t", "a", "m", "p", "(", "(", "e", "p", "o", "c", "h", "_", "n", "s", "(">> \o TrimSpace(column) \o <<")", " ", "/", "/", " ", "1", "0", "0", "0", "0", "0", "0", "0", "0", "0", " ", "/", "/", " ">>
        \o Itoa(SecondsOf(interval)) \o <<")", " ", "*", " ">> \o Itoa(SecondsOf(interval)) \o <<")">>

\* a template with every $__timeGroup(<column>, <interval>) replaced
RECURSIVE GroupsExpanded(_)
GroupsExpanded(segs) ==
    IF segs = <<>> THEN <<>>
    ELSE (IF Head(segs).k = "group"
          THEN BucketExpression(Head(segs).a, Head(segs).b)
          ELSE SegText(Head(segs)))
            \o GroupsExpanded(Tail(segs))

\* C29 as stated: expandTimeGroup replaces every occurrence of
\* $__timeGroup(<column>, <interval>) by
\* to_timestamp((epoch_ns(<column>) // 1000000000 // S) * S), S being the
\* seconds of the interval in the fixed table (short and long form alike,
\* quotes and surrounding spaces ignored) and 3600 for any other interval, and
\* it does so for each of several occurrences; the rest of the SQL is kept.
C29_EveryTimeGroupExpanded ==
    eFn = "expandTimeGroup" => eOut = GroupsExpanded(eSegs)

\* a $__timeGroup or $__timeFilter that is not closed: nothing but its text
\* follows the token, and no parenthesis
Unclosed(segs, i, token) ==
    /\ i = Len(segs)
    /\ segs[i].k = "text"
    /\ Len(segs[i].a) >= Len(token)
    /\ SubSeq(segs[i].a, 1, Len(token)) = token
    /\ \A j \in 1 .. Len(segs[i].a) : segs[i].a[j] # ")"

\* the functions that expand $__timeFilter, and those that expand $__timeGroup
FilterExpanders == {"expandTimeFilter", "ApplyMacros"}

GroupExpanders == {"expandTimeGroup", "ApplyMacros"}

\* the condition $__timeFilter() stands for in the range of the call
DefaultCondition ==
    <<"t", "i", "m", "e", " ", ">", "=", " ", "'">> \o FormatRFC3339(ExpandRange.From) \o <<"'", " ", "A", "N", "D", " ", "t", "i", "m", "e", " ", "<", " ", "'">>
        \o FormatRFC3339(ExpandRange.To) \o <<"'">>

\* the text before segment i once its $__timeFilter macros are expanded
RECURSIVE FiltersExpanded(_)
FiltersExpanded(segs) ==
    IF segs = <<>> THEN <<>>
    ELSE (IF Head(segs).k = "filter"
          THEN (IF TrimSpace(Head(segs).a) = <<>> THEN DefaultCondition
                ELSE ExpectedSeg(Head(segs), ExpandRange, ExpandRange))
          ELSE SegText(Head(segs)))
            \o FiltersExpanded(Tail(segs))

----------------------------------------------------------------------------
(* OptimizeSpec: OptimizeTimeSeriesQuery on statements with white space
   around them *)

\* what precedes the statement and what follows it
LeadingTexts == {<<>>, <<" ">>, <<"\n", " ", " ">>}

TrailingTexts == {<<>>, <<" ">>, <<";">>, <<" ", ";", "\n">>}

\* statements with and without the time column, with ORDER BY in both cases,
\* with LIMIT and OFFSET clauses in both cases and orders and after a newline
Statements ==
    {<<"S", "E", "L", "E", "C", "T", " ", "t", "i", "m", "e", ",", " ", "v", " ", "F", "R", "O", "M", " ", "t">>,
     <<"S", "E", "L", "E", "C", "T", " ", "v", " ", "F", "R", "O", "M", " ", "t">>,
     <<"s", "e", "l", "e", "c", "t", " ", "T", "i", "m", "e", ",", " ", "v", " ", "f", "r", "o", "m", " ", "t">>,
     <<"S", "E", "L", "E", "C", "T", " ", "t", "i", "m", "e", ",", " ", "v", " ", "F", "R", "O", "M", " ", "t", " ", "O", "R", "D", "E", "R", " ", "B", "Y", " ", "t", "i", "m", "e", " ", "D", "E", "S", "C">>,
     <<"S", "E", "L", "E", "C", "T", " ", "t", "i", "m", "e", ",", " ", "v", " ", "F", "R", "O", "M", " ", "t", " ", "o", "r", "d", "e", "r", " ", "b", "y", " ", "v">>,
     <<"S", "E", "L", "E", "C", "T", " ", "t", "i", "m", "e", ",", " ", "v", " ", "F", "R", "O", "M", " ", "t", " ", "L", "I", "M", "I", "T", " ", "1", "0">>,
     <<"S", "E", "L", "E", "C", "T", " ", "t", "i", "m", "e", ",", " ", "v", " ", "F", "R", "O", "M", " ", "t", " ", "l", "i", "m", "i", "t", " ", "1", "0", " ", "o", "f", "f", "s", "e", "t", " ", "5">>,
     <<"S", "E", "L", "E", "C", "T", " ", "t", "i", "m", "e", ",", " ", "v", " ", "F", "R", "O", "M", " ", "t", " ", "O", "F", "F", "S", "E", "T", " ", "5">>,
     <<"S", "E", "L", "E", "C", "T", " ", "t", "i", "m", "e", ",", " ", "v", " ", "F", "R", "O", "M", " ", "t", " ", "O", "F", "F", "S", "E", "T", " ", "5", " ", "L", "I", "M", "I", "T", " ", "1", "0">>,
     <<"S", "E", "L", "E", "C", "T", " ", "t", "i", "m", "e", ",", " ", "v", " ", "F", "R", "O", "M", " ", "t", "\n", "L", "I", "M", "I", "T", " ", "1", "0">>,
     <<"S", "E", "L", "E", "C", "T", " ", "v", " ", "F", "R", "O", "M", " ", "t", " ", "L", "I", "M", "I", "T", " ", "1", "0">>}

OptimizeInputs ==
    {l \o s \o t : l \in LeadingTexts, s \in Statements, t \in TrailingTexts}

OptimizeInit ==
    /\ oSql \in OptimizeInputs
    /\ oOut = <<>>
    /\ oDone = FALSE
    /\ RequestInit /\ QueryIdle /\ SplitIdle /\ PlanIdle /\ MacroIdle /\ MergeIdle /\ PrepareIdle /\ SizeIdle /\ JsonIdle /\ ArrowIdle /\ ExpandIdle

\* qm.SQL = OptimizeTimeSeriesQuery(qm.SQL)
CallOptimizeTimeSeriesQuery ==
    /\ ~oDone
    /\ oOut' = OptimizeTimeSeriesQuery(oSql)
    /\ oDone' = TRUE
    /\ UNCHANGED oSql
    /\ UNCHANGED <<splitVars, planVars, macroVars, mergeVars, prepareVars, sizeVars, jsonVars, arrowVars, expandVars, reqVars, queryVars>>

OptimizeNext == CallOptimizeTimeSeriesQuery

OptimizeSpec == OptimizeInit /\ [][OptimizeNext]_vars

WordOrder ==
    <<"O", "R", "D", "E", "R", " ", "B", "Y">>

WordOffset ==
    <<"O", "F", "F", "S", "E", "T">>

\* the positions of sql at which word stands as a keyword, in any letter case
KeywordAt(sql, word) ==
    {i \in 1 .. Len(sql) - Len(word) + 1 :
        /\ ToUpper(SubSeq(sql, i, i + Len(word) - 1)) = word
        /\ (i = 1 \/ Blank(sql[i - 1]))
        /\ (i + Len(word) - 1 = Len(sql) \/ Blank(sql[i + Len(word)]))}

\* the statement without the white space and semicolons at its end
Kept(sql) == TrimRight(sql, StatementEndChars)

\* where the LIMIT/OFFSET clause starts: the blank before the first of the
\* two keywords, 0 when there is neither
ClauseStart(sql) ==
    LET at == KeywordAt(Kept(sql), WordLimit) \cup KeywordAt(Kept(sql), WordOffset)
    IN  IF at = {} THEN 0 ELSE (CHOOSE i \in at : \A j \in at : i <= j) - 1

\* C35 as stated: SQL with an ORDER BY is returned unchanged; SQL that
\* mentions time and has none is returned with " ORDER BY time ASC" right
\* before its LIMIT/OFFSET clause, or at its end when it has no such clause,
\* every other character staying where it is (white space and semicolons
\* after the statement may go), whatever white space precedes or follows the
\* statement.
C35_OrderByInserted ==
    oDone =>
        /\ KeywordAt(oSql, WordOrder) # {} => oOut = oSql
        /\ (KeywordAt(oSql, WordOrder) = {} /\ Contains(ToLower(oSql), KwTime)) =>
              IF ClauseStart(oSql) = 0
              THEN oOut = Kept(oSql) \o OrderByTimeAsc
              ELSE oOut = SubSeq(Kept(oSql), 1, ClauseStart(oSql) - 1)
                            \o OrderByTimeAsc
                            \o From(Kept(oSql), ClauseStart(oSql))

----------------------------------------------------------------------------
(* MergeSpec: mergeFrames on every list of frames of a catalogue *)

MergeMaxFrames == 3

TimeCol(vals) == Field("time", "time", vals)

ValueCol(vals) == Field("value", "float64", vals)

\* the value column of a chunk whose values are all null: JSONToDataFrame finds
\* no sample and makes it a string column
NullStringCol(vals) == Field("value", "string", vals)

\* what a chunk can yield: no frame; a frame without columns (no rows came
\* back); time and value columns with 0, 2 and 1 rows; a value column alone;
\* time and an all-null value column; columns of unequal lengths
ChunkFrames ==
    {NoFrame,
     DataFrame(<<>>),
     DataFrame(<<TimeCol(<<>>), ValueCol(<<>>)>>),
     DataFrame(<<TimeCol(<<11, 12>>), ValueCol(<<111, 112>>)>>),
     DataFrame(<<TimeCol(<<21>>), ValueCol(<<121>>)>>),
     DataFrame(<<ValueCol(<<131>>)>>),
     DataFrame(<<TimeCol(<<41>>), NullStringCol(<<NullValue>>)>>),
     DataFrame(<<TimeCol(<<51, 52>>), ValueCol(<<151>>)>>),
     DataFrame(<<TimeCol(<<61>>), ValueCol(<<161, 162>>)>>)}

RECURSIVE FrameLists(_)
FrameLists(n) ==
    IF n = 0 THEN {<<>>}
    ELSE FrameLists(n - 1)
            \cup {Append(l, f) : l \in {m \in FrameLists(n - 1) : Len(m) = n - 1},
                                 f \in ChunkFrames}

MergeInit ==
    /\ gFrames \in FrameLists(MergeMaxFrames)
    /\ gOut = NoFrame
    /\ gDone = FALSE
    /\ RequestInit /\ QueryIdle /\ SplitIdle /\ PlanIdle /\ MacroIdle /\ PrepareIdle /\ SizeIdle /\ JsonIdle /\ ArrowIdle /\ ExpandIdle /\ OptimizeIdle

CallMergeFrames ==
    /\ ~gDone
    /\ gOut' = mergeFrames(gFrames)
    /\ gDone' = TRUE
    /\ UNCHANGED gFrames
    /\ UNCHANGED <<splitVars, planVars, macroVars, prepareVars, sizeVars, jsonVars, arrowVars, expandVars, optVars, reqVars, queryVars>>

MergeNext == CallMergeFrames

MergeSpec == MergeInit /\ [][MergeNext]_vars

\* the names and types of the columns of a frame
Columns(f) == [k \in 1 .. Len(f.fields) |-> <<f.fields[k].name, f.fields[k].type>>]

\* the frames of the list are frames with the same columns, each with columns
\* of one length
SameColumns(frames) ==
    \A i \in 1 .. Len(frames) :
        /\ frames[i].kind = "frame"
        /\ Columns(frames[i]) = Columns(frames[1])
        /\ RowLenOk(frames[i])

\* column k of the frames of the list, one frame after the other
RECURSIVE AllVals(_, _)
AllVals(frames, k) ==
    IF frames = <<>> THEN <<>>
    ELSE Head(frames).fields[k].vals \o AllVals(Tail(frames), k)

RECURSIVE SumRows(_)
SumRows(frames) ==
    IF frames = <<>> THEN 0 ELSE Rows(Head(frames)) + SumRows(Tail(frames))

\* C16: for two or more frames with the same columns mergeFrames returns a
\* frame with these columns whose rows are the rows of frames[0], then those
\* of frames[1], and so on: as many rows as the inputs have together, and all
\* columns of one length.
C16_MergeAppendsInOrder ==
    (gDone /\ Len(gFrames) >= 2 /\ SameColumns(gFrames)) =>
        /\ gOut.kind = "frame"
        /\ Columns(gOut) = Columns(gFrames[1])
        /\ \A k \in 1 .. Len(gOut.fields) :
                /\ gOut.fields[k].vals = AllVals(gFrames, k)
                /\ Len(gOut.fields[k].vals) = SumRows(gFrames)
        /\ RowLenOk(gOut)
        /\ Rows(gOut) = SumRows(gFrames)

\* three frames with time and value columns, at least two of them with rows
C16_Witness ==
    /\ gDone
    /\ Len(gFrames) = 3
    /\ SameColumns(gFrames)
    /\ Rows(gFrames[1]) > 0
    /\ Rows(gFrames[3]) > 0
    /\ gFrames[1] # gFrames[3]
    /\ Rows(gOut) = SumRows(gFrames)

\* the index of the base frame, 0 when no frame has columns
BaseIndex(frames) ==
    LET withColumns == {i \in 1 .. Len(frames) :
                            frames[i].kind = "frame" /\ frames[i].fields # <<>>}
    IN  IF withColumns = {} THEN 0 ELSE Min(withColumns)

\* the frames other than the base whose number of columns is not the base's
OddFrames(frames) ==
    {i \in 1 .. Len(frames) :
        /\ BaseIndex(frames) # 0
        /\ frames[i].kind = "frame"
        /\ Len(frames[i].fields) # Len(frames[BaseIndex(frames)].fields)}

Without(frames, i) == SubSeq(frames, 1, i - 1) \o SubSeq(frames, i + 1, Len(frames))

\* the values other than null of the columns of a frame
ValuesOf(f) ==
    UNION {{f.fields[k].vals[r] : r \in 1 .. Len(f.fields[k].vals)} :
                k \in 1 .. Len(f.fields)} \ {NullValue}

\* C17: a frame whose number of columns is not the base frame's gives no row
\* to the result, and the result is that of merging the list without it.
C17_OddFrameDropped ==
    gDone =>
        \A i \in OddFrames(gFrames) :
            /\ gOut = mergeFrames(Without(gFrames, i))
            /\ ValuesOf(gOut) \cap ValuesOf(gFrames[i]) = {}

\* two frames with rows are merged around a frame with the value column alone
C17_Witness ==
    /\ gDone
    /\ Len(gFrames) = 3
    /\ OddFrames(gFrames) = {2}
    /\ Rows(gFrames[2]) > 0
    /\ Rows(gFrames[1]) > 0
    /\ Rows(gFrames[3]) > 0
    /\ gOut.kind = "frame"
    /\ Rows(gOut) = Rows(gFrames[1]) + Rows(gFrames[3])

\* C18 as stated: mergeFrames returns a frame or nil for every list of chunk
\* frames, whatever their columns, column types and column lengths.
C18_MergeNeverFaults ==
    gDone => gOut.kind \in {"frame", "nil"}

\* C31: in a merge of two or more frames of which one has columns, the result
\* is what the merge of the list without the nil and column-less frames in
\* front gives; when it returns a frame, the frame has the columns of the
\* first frame with columns and (that frame's columns being of one length)
\* starts with all of that frame's rows.
C31_BaseIsFirstWithColumns ==
    (gDone /\ Len(gFrames) >= 2 /\ BaseIndex(gFrames) # 0) =>
        LET base == gFrames[BaseIndex(gFrames)] IN
        /\ gOut = mergeFrames(SubSeq(gFrames, BaseIndex(gFrames), Len(gFrames)))
        /\ gOut.kind # "nil"
        /\ gOut.kind = "frame" => Columns(gOut) = Columns(base)
        /\ (gOut.kind = "frame" /\ RowLenOk(base)) =>
              /\ Rows(gOut) >= Rows(base)
              /\ \A k \in 1 .. Len(base.fields) :
                    SubSeq(gOut.fields[k].vals, 1, Len(base.fields[k].vals))
                        = base.fields[k].vals

\* a frame without columns (or no frame) before two frames with rows
C31_Witness ==
    /\ gDone
    /\ Len(gFrames) = 3
    /\ BaseIndex(gFrames) = 2
    /\ SameColumns(SubSeq(gFrames, 2, 3))
    /\ Rows(gFrames[2]) > 0
    /\ Rows(gFrames[3]) > 0
    /\ gOut.kind = "frame"
    /\ Rows(gOut) = Rows(gFrames[2]) + Rows(gFrames[3])

\* C32: mergeFrames gives no frame for an empty list and the one frame of a
\* one-element list as it is, be it nil, without columns or malformed.
C32_ShortListReturned ==
    /\ (gDone /\ Len(gFrames) = 0) => gOut = NoFrame
    /\ (gDone /\ Len(gFrames) = 1) => gOut = gFrames[1]

\* a single frame without columns is returned, not replaced by nil
C32_Witness ==
    /\ gDone
    /\ Len(gFrames) = 1
    /\ gFrames[1] = DataFrame(<<>>)
    /\ gOut = gFrames[1]

----------------------------------------------------------------------------
(* PrepareSpec: prepareFrames on long, wide and other frames *)

PrepMaxRows == 3

\* time columns of up to PrepMaxRows rows: two instants and null
TimeColumns ==
    UNION {[1 .. n -> {NullValue, 1, 2}] : n \in 0 .. PrepMaxRows}

\* the values of a value column: each row has its own
RowValues(n) == [i \in 1 .. n |-> 100 + i]

\* a long frame: time, a string column naming the series, value
LongFrames ==
    UNION {{DataFrame(<<TimeCol(times),
                        Field("host", "string", labels),
                        ValueCol(RowValues(Len(times)))>>) :
                labels \in [1 .. Len(times) -> {"a", "b"}]} :
            times \in TimeColumns}

\* a wide frame: time, value
WideFrames ==
    {DataFrame(<<TimeCol(times), ValueCol(RowValues(Len(times)))>>) :
        times \in TimeColumns}

PrepareInputs ==
    LongFrames \cup WideFrames \cup {NoFrame, DataFrame(<<ValueCol(RowValues(1))>>)}

PrepareInit ==
    /\ fFrame \in PrepareInputs
    /\ fFormat \in {"time_series", "table"}
    /\ fSorted = NoFrame
    /\ fOut = <<>>
    /\ fDone = FALSE
    /\ RequestInit /\ QueryIdle /\ SplitIdle /\ PlanIdle /\ MacroIdle /\ MergeIdle /\ SizeIdle /\ JsonIdle /\ ArrowIdle /\ ExpandIdle /\ OptimizeIdle

\* prepareFrames, with the frame its call of ensureAscendingTimes returns
CallPrepareFrames ==
    /\ ~fDone
    /\ \E sorted \in
            (IF fFormat # "table" /\ TimeSeriesSchema(fFrame).Type = "long"
             THEN ensureAscendingTimes(fFrame, TimeSeriesSchema(fFrame).TimeIndex)
             ELSE {fFrame}) :
        /\ fSorted' = sorted
        /\ fOut' = prepareFrames(fFrame, fFormat, sorted)
    /\ fDone' = TRUE
    /\ UNCHANGED <<fFrame, fFormat>>
    /\ UNCHANGED <<splitVars, planVars, macroVars, mergeVars, sizeVars, jsonVars, arrowVars, expandVars, optVars, reqVars, queryVars>>

PrepareNext == CallPrepareFrames

PrepareSpec == PrepareInit /\ [][PrepareNext]_vars

NonDecreasing(times) ==
    \A i \in 2 .. Len(times) : times[i - 1] <= times[i]

\* C19 as stated: for a frame in time series format, long or wide,
\* prepareFrames returns a frame whose time column does not decrease from a
\* row to the next, and a long frame comes back reshaped to wide.
C19_PreparedTimeAscending ==
    (/\ fDone
     /\ fFormat = "time_series"
     /\ TimeSeriesSchema(fFrame).Type \in {"wide", "long"}) =>
        /\ Len(fOut) = 1
        /\ NonDecreasing(fOut[1].time)
        /\ TimeSeriesSchema(fFrame).Type = "long" =>
                fOut[1].meta = "timeseries-wide"

\* the order of a stable sort: ascending times, rows of one time as they were
StableOrder(times) ==
    CHOOSE p \in Permutations(1 .. Len(times)) :
        \A i, j \in 1 .. Len(times) : i < j =>
            \/ times[p[i]] < times[p[j]]
            \/ times[p[i]] = times[p[j]] /\ p[i] < p[j]

\* C20 as stated: when ensureAscendingTimes reorders a frame, two rows of
\* equal times are in the result in the order they had in the input.
C20_SortStable ==
    (fDone /\ fSorted # fFrame) =>
        fSorted = Permute(fFrame,
                          StableOrder(fFrame.fields[TimeSeriesSchema(fFrame).TimeIndex].vals))

\* ensureAscendingTimes is called on the long frames of a time series query
SortCalled ==
    fDone /\ fFormat # "table" /\ TimeSeriesSchema(fFrame).Type = "long"

\* the times of a column without its nulls
ValidTimes(times) == SelectSeq(times, LAMBDA v : v # NullValue)

\* row i of g is row p[i] of f, with every value of the row
RowsPermutedBy(f, g, p) ==
    /\ Len(g.fields) = Len(f.fields)
    /\ \A k \in 1 .. Len(f.fields) :
            /\ g.fields[k].name = f.fields[k].name
            /\ g.fields[k].type = f.fields[k].type
            /\ Len(g.fields[k].vals) = Len(f.fields[k].vals)
            /\ \A i \in 1 .. Len(f.fields[k].vals) :
                    g.fields[k].vals[i] = f.fields[k].vals[p[i]]

\* C37 as stated: ensureAscendingTimes returns the frame it was given when the
\* frame has fewer than two rows or its times (nulls aside) do not decrease;
\* otherwise it returns another frame, whose rows are the rows of the input in
\* some order, each row with all its values, and the input stays as it was.
C37_SameFrameOrRowPermutation ==
    SortCalled =>
        LET times == fFrame.fields[TimeSeriesSchema(fFrame).TimeIndex].vals
        IN  IF Len(times) < 2 \/ NonDecreasing(ValidTimes(times))
            THEN fSorted = fFrame
            ELSE /\ fSorted # fFrame
                 /\ fSorted.kind = "frame"
                 /\ \E p \in Permutations(1 .. Len(times)) :
                        RowsPermutedBy(fFrame, fSorted, p)

\* the part of C37 that holds: the result is always the rows of the input in
\* some order, and the input itself when no time is null and none decreases
C37_RowsKept ==
    SortCalled =>
        LET times == fFrame.fields[TimeSeriesSchema(fFrame).TimeIndex].vals
        IN  /\ \E p \in Permutations(1 .. Len(times)) :
                    RowsPermutedBy(fFrame, fSorted, p)
            /\ (Len(times) < 2 \/ NonDecreasing(ValidTimes(times))) =>
                    fSorted = fFrame
            /\ (\A i \in 1 .. Len(times) : times[i] # NullValue)
                /\ ~NonDecreasing(times) =>
                    fSorted # fFrame

====
